---- MODULE Spec2Model ----
(***************************************************************************)
(* Eventual-consistency polling in the AWS provider: the EC2 / SFN status  *)
(* reducers (internal/service/ec2/status.go, sfn/waiter/status.go), the    *)
(* retry driver that consumes their outcomes, and the sweeper's per-item   *)
(* delete worker (internal/sweep/sweep.go).  Next to them, the callers of  *)
(* the same not-found convention: the kinesisanalyticsv2 finders, the      *)
(* CodePipeline webhook resource, the Cognito user pools data source and   *)
(* the acceptance tests' destroy checks.                                   *)
(***************************************************************************)
EXTENDS Integers, Sequences, FiniteSets, TLC

VARIABLES
    rname,      \* the status reducer handed to the retry driver
    targetSet,  \* the caller's target statuses
    failureSet, \* the caller's failure statuses
    policy,     \* RetryPolicy: delay, delayRand, minTimeout, pollInterval, timeout
    pstate,     \* the poll driver: phase, state, polls, elapsed, result
    lastResp,   \* the API response the last poll received
    outcome,    \* the PollOutcome the reducer made of lastResp
    ctxDone,    \* the context passed to SweepOrchestratorContext is cancelled
    items,      \* per list position: the sweep resource, and the worker started
                \* for it (the item it captured, its retry loop, its outcome)
    orch,       \* SweepOrchestratorContext: where it is, and what it returned
    cli,        \* SweeperClients and the callers of SharedRegionalSweepClient
    skip,       \* a call of SkipSweepError: its argument and its result
    twice,      \* a refresh function called twice on an unchanged resource
    delcall,    \* a call of DeleteResource: resource, handler reply, result
    find,       \* a call of a kinesisanalyticsv2 finder
    destroy,    \* a call of an acceptance-test destroy check
    wh,         \* the CodePipeline webhook resource: GetWebhook, Read, Delete
    pools       \* the Cognito user pools data source

vars == <<rname, targetSet, failureSet, policy, pstate, lastResp, outcome,
          ctxDone, items, orch, cli, skip, twice, delcall, find, destroy, wh, pools>>

pollVars == <<rname, targetSet, failureSet, pstate, lastResp, outcome>>
sweepVars == <<ctxDone, items, orch>>
helperVars == <<cli, skip, twice>>
callVars == <<delcall, find, destroy, wh, pools>>

(***************************************************************************)
(* Bounds of the model.                                                    *)
(***************************************************************************)
MaxDelay == 1
MaxDelayRand == 1
MaxPollInterval == 2
MaxTimeout == 3
NumItems == 2
NumCallers == 2
MaxResources == 2
MaxPages == 3
MaxRequests == 4
MaxDeletes == 2
\* SweepThrottlingRetryTimeout (10 minutes), in ticks of the model's clock
SweepThrottlingRetryTimeout == 1

Max(a, b) == IF a >= b THEN a ELSE b

\* strings.Contains(s, substr)
Contains(s, substr) ==
    \E i \in 1..(Len(s) - Len(substr) + 1) : SubSeq(s, i, i + Len(substr) - 1) = substr

(***************************************************************************)
(* API responses and poll outcomes.                                        *)
(***************************************************************************)
\* Error classes a describe / find call can report.  CodeNotFound is the AWS
\* error code the resource type uses for a missing resource
\* (Invalid...NotFound); FinderNotFound is the *resource.NotFoundError a
\* finder builds (see finder.go); Throttling is a rate-limiting response.
NoError == "none"
ErrKinds == {"CodeNotFound", "FinderNotFound", "Throttling", "Other"}

\* Errors the reducers make themselves.
InternalError == "internal error: found N results, need 1"
ArnParseError == "parsing ARN"
DeletingError == "Snapshot import task is deleting"

\* Lifecycle values the API reports in a State / Status.Code field.
LifecycleValues == {"pending", "available", "deleting", "deleted", "failed",
                    "expired", "rejected"}
BoolValues == {"true", "false"}

\* Shapes of a successful response.
\*   absent    nil result / empty list
\*   nilElem   a list whose first element is nil
\*   noStatus  the object is there, its nested status / detail object is nil
\*   noCode    the nested status object is there, its code is nil
\*   multi     more than one result
\*   full      one result with its lifecycle field set
\*   invalid   one result whose field holds a value that does not parse
Shapes == {"absent", "nilElem", "noStatus", "noCode", "multi", "full", "invalid"}

ErrResp(e, g) == [err |-> e, shape |-> "absent", state |-> "", gen |-> g]
OkResp(sh, st, g) == [err |-> NoError, shape |-> sh, state |-> st, gen |-> g]

\* Payloads.  TypedNil is a nil pointer returned through interface{}.
Nil == [kind |-> "nil"]
TypedNil == [kind |-> "typednil"]
Obj(resp) == [kind |-> "obj", gen |-> resp.gen, state |-> resp.state]
EmptyString == [kind |-> "string"]

IsNilPayload(p) == p.kind \in {"nil", "typednil"}

PollOutcome(p, s, e) == [payload |-> p, status |-> s, err |-> e, panicked |-> FALSE]
\* a nil-pointer dereference inside the reducer: no outcome is returned
Panic == [payload |-> Nil, status |-> "", err |-> NoError, panicked |-> TRUE]
NoOutcome == [payload |-> Nil, status |-> "", err |-> NoError, panicked |-> FALSE]

\* aws.StringValue of the lifecycle field: "" when the pointer is nil
StringValue(resp) == IF resp.shape \in {"full", "multi"} THEN resp.state ELSE ""
\* strconv.FormatBool(aws.BoolValue(p)): "false" when the pointer is nil
FormatBoolValue(resp) == IF resp.shape = "full" THEN resp.state ELSE "false"

(***************************************************************************)
(* The status reducers of internal/service/ec2/status.go, each the body of *)
(* the resource.StateRefreshFunc closure, applied to the response of its   *)
(* one describe / find call.                                               *)
(***************************************************************************)
carrierGatewayStateNotFound == "NotFound"
carrierGatewayStateUnknown == "Unknown"

\* the reducer answering later calls from what its first call left behind
StatusCarrierGatewayStateKeepsState(resp) ==
    IF resp.gen > 1 THEN PollOutcome(Nil, carrierGatewayStateNotFound, NoError)
    ELSE IF resp.err = "CodeNotFound" THEN PollOutcome(Nil, carrierGatewayStateNotFound, NoError)
    ELSE IF resp.err # NoError THEN PollOutcome(Nil, carrierGatewayStateUnknown, resp.err)
    ELSE IF resp.shape = "absent" THEN PollOutcome(Nil, carrierGatewayStateNotFound, NoError)
    ELSE IF StringValue(resp) = "deleted"
         THEN PollOutcome(Nil, carrierGatewayStateNotFound, NoError)
    ELSE PollOutcome(Obj(resp), StringValue(resp), NoError)

StatusCarrierGatewayState(resp) ==
    IF resp.err = "CodeNotFound" THEN PollOutcome(Nil, carrierGatewayStateNotFound, NoError)
    ELSE IF resp.err # NoError THEN PollOutcome(Nil, carrierGatewayStateUnknown, resp.err)
    ELSE IF resp.shape = "absent" THEN PollOutcome(Nil, carrierGatewayStateNotFound, NoError)
    ELSE IF StringValue(resp) = "deleted"
         THEN PollOutcome(Nil, carrierGatewayStateNotFound, NoError)
    ELSE PollOutcome(Obj(resp), StringValue(resp), NoError)

RouteTableAssociationStateCodeDisassociated == "disassociated"

StatusLocalGatewayRouteTableVPCAssociationState(resp) ==
    IF resp.err # NoError THEN PollOutcome(Nil, "", resp.err)
    \* no element of the list carries the id: association stays a nil pointer
    ELSE IF resp.shape \in {"absent", "nilElem"}
         THEN PollOutcome(TypedNil, RouteTableAssociationStateCodeDisassociated, NoError)
    ELSE PollOutcome(Obj(resp), StringValue(resp), NoError)

ClientVPNEndpointStatusNotFound == "NotFound"
ClientVPNEndpointStatusUnknown == "Unknown"

StatusClientVPNEndpoint(resp) ==
    IF resp.err = "CodeNotFound" THEN PollOutcome(Nil, ClientVPNEndpointStatusNotFound, NoError)
    ELSE IF resp.err # NoError THEN PollOutcome(Nil, ClientVPNEndpointStatusUnknown, resp.err)
    ELSE IF resp.shape \in {"absent", "nilElem"}
         THEN PollOutcome(Nil, ClientVPNEndpointStatusNotFound, NoError)
    ELSE IF resp.shape \in {"noStatus", "noCode"}
         THEN PollOutcome(Obj(resp), ClientVPNEndpointStatusUnknown, NoError)
    ELSE PollOutcome(Obj(resp), StringValue(resp), NoError)

ClientVPNAuthorizationRuleStatusNotFound == "NotFound"
ClientVPNAuthorizationRuleStatusUnknown == "Unknown"

StatusClientVPNAuthorizationRule(resp) ==
    IF resp.err = "CodeNotFound"
    THEN PollOutcome(Nil, ClientVPNAuthorizationRuleStatusNotFound, NoError)
    ELSE IF resp.err # NoError
         THEN PollOutcome(Nil, ClientVPNAuthorizationRuleStatusUnknown, resp.err)
    ELSE IF resp.shape \in {"absent", "nilElem"}
         THEN PollOutcome(Nil, ClientVPNAuthorizationRuleStatusNotFound, NoError)
    ELSE IF resp.shape = "multi"
         THEN PollOutcome(Nil, ClientVPNAuthorizationRuleStatusUnknown, InternalError)
    ELSE IF resp.shape \in {"noStatus", "noCode"}
         THEN PollOutcome(Obj(resp), ClientVPNAuthorizationRuleStatusUnknown, NoError)
    ELSE PollOutcome(Obj(resp), StringValue(resp), NoError)

ClientVPNNetworkAssociationStatusNotFound == "NotFound"
ClientVPNNetworkAssociationStatusUnknown == "Unknown"

\* CodeNotFound stands for either of the two codes the reducer tests
\* (association id not found, endpoint id not found).
StatusClientVPNNetworkAssociation(resp) ==
    IF resp.err = "CodeNotFound"
    THEN PollOutcome(Nil, ClientVPNNetworkAssociationStatusNotFound, NoError)
    ELSE IF resp.err # NoError
         THEN PollOutcome(Nil, ClientVPNNetworkAssociationStatusUnknown, resp.err)
    ELSE IF resp.shape \in {"absent", "nilElem"}
         THEN PollOutcome(Nil, ClientVPNNetworkAssociationStatusNotFound, NoError)
    ELSE IF resp.shape \in {"noStatus", "noCode"}
         THEN PollOutcome(Obj(resp), ClientVPNNetworkAssociationStatusUnknown, NoError)
    ELSE PollOutcome(Obj(resp), StringValue(resp), NoError)

ClientVPNRouteStatusNotFound == "NotFound"
ClientVPNRouteStatusUnknown == "Unknown"

StatusClientVPNRoute(resp) ==
    IF resp.err = "CodeNotFound" THEN PollOutcome(Nil, ClientVPNRouteStatusNotFound, NoError)
    ELSE IF resp.err # NoError THEN PollOutcome(Nil, ClientVPNRouteStatusUnknown, resp.err)
    ELSE IF resp.shape \in {"absent", "nilElem"}
         THEN PollOutcome(Nil, ClientVPNRouteStatusNotFound, NoError)
    ELSE IF resp.shape = "multi"
         THEN PollOutcome(Nil, ClientVPNRouteStatusUnknown, InternalError)
    ELSE IF resp.shape \in {"noStatus", "noCode"}
         THEN PollOutcome(Obj(resp), ClientVPNRouteStatusUnknown, NoError)
    ELSE PollOutcome(Obj(resp), StringValue(resp), NoError)

StatusInstanceIAMInstanceProfile(resp) ==
    IF resp.err = "CodeNotFound" THEN PollOutcome(Nil, "", NoError)
    ELSE IF resp.err # NoError THEN PollOutcome(Nil, "", resp.err)
    ELSE IF resp.shape = "absent" THEN PollOutcome(Nil, "", NoError)
    ELSE IF resp.shape \in {"noStatus", "noCode"} THEN PollOutcome(Obj(resp), "", NoError)
    \* tfiam.InstanceProfileARNToName fails on an ARN it cannot parse
    ELSE IF resp.shape = "invalid" THEN PollOutcome(Obj(resp), "", ArnParseError)
    ELSE PollOutcome(Obj(resp), StringValue(resp), NoError)

RouteStatusReady == "ready"

\* StatusRoute without the not-found test
StatusRouteNoNotFoundTest(resp) ==
    IF resp.err # NoError THEN PollOutcome(Nil, "", resp.err)
    ELSE PollOutcome(Obj(resp), RouteStatusReady, NoError)

StatusRoute(resp) ==
    IF resp.err = "FinderNotFound" THEN PollOutcome(Nil, "", NoError)
    ELSE IF resp.err # NoError THEN PollOutcome(Nil, "", resp.err)
    ELSE PollOutcome(Obj(resp), RouteStatusReady, NoError)

RouteTableStatusReady == "ready"

StatusRouteTable(resp) ==
    IF resp.err = "FinderNotFound" THEN PollOutcome(Nil, "", NoError)
    ELSE IF resp.err # NoError THEN PollOutcome(Nil, "", resp.err)
    ELSE PollOutcome(Obj(resp), RouteTableStatusReady, NoError)

StatusRouteTableAssociationState(resp) ==
    IF resp.err = "FinderNotFound" THEN PollOutcome(Nil, "", NoError)
    ELSE IF resp.err # NoError THEN PollOutcome(Nil, "", resp.err)
    \* output.AssociationState.State with a nil AssociationState
    ELSE IF resp.shape = "noStatus" THEN Panic
    ELSE PollOutcome(Obj(resp), StringValue(resp), NoError)

SecurityGroupStatusCreated == "Created"
SecurityGroupStatusNotFound == "NotFound"
SecurityGroupStatusUnknown == "Unknown"

StatusSecurityGroup(resp) ==
    IF resp.err = "FinderNotFound" THEN PollOutcome(Nil, SecurityGroupStatusNotFound, NoError)
    ELSE IF resp.err # NoError THEN PollOutcome(Nil, SecurityGroupStatusUnknown, resp.err)
    ELSE PollOutcome(Obj(resp), SecurityGroupStatusCreated, NoError)

StatusSubnetMapCustomerOwnedIPOnLaunch(resp) ==
    IF resp.err = "CodeNotFound" THEN PollOutcome(Nil, "false", NoError)
    ELSE IF resp.err # NoError THEN PollOutcome(Nil, "false", resp.err)
    ELSE IF resp.shape = "absent" THEN PollOutcome(Nil, "false", NoError)
    ELSE PollOutcome(Obj(resp), FormatBoolValue(resp), NoError)

StatusSubnetMapPublicIPOnLaunch(resp) ==
    IF resp.err = "CodeNotFound" THEN PollOutcome(Nil, "false", NoError)
    ELSE IF resp.err # NoError THEN PollOutcome(Nil, "false", resp.err)
    ELSE IF resp.shape = "absent" THEN PollOutcome(Nil, "false", NoError)
    ELSE PollOutcome(Obj(resp), FormatBoolValue(resp), NoError)

StatusTransitGatewayPrefixListReferenceState(resp) ==
    IF resp.err # NoError THEN PollOutcome(Nil, "", resp.err)
    ELSE IF resp.shape = "absent" THEN PollOutcome(Nil, "", NoError)
    ELSE PollOutcome(Obj(resp), StringValue(resp), NoError)

StatusTransitGatewayRouteTablePropagationState(resp) ==
    IF resp.err # NoError THEN PollOutcome(Nil, "", resp.err)
    ELSE IF resp.shape = "absent" THEN PollOutcome(Nil, "", NoError)
    ELSE PollOutcome(Obj(resp), StringValue(resp), NoError)

StatusVPCAttribute(resp) ==
    IF resp.err = "CodeNotFound" THEN PollOutcome(Nil, "", NoError)
    ELSE IF resp.err # NoError THEN PollOutcome(Nil, "", resp.err)
    ELSE IF resp.shape = "absent" THEN PollOutcome(Nil, "", NoError)
    ELSE PollOutcome(Obj(resp), FormatBoolValue(resp), NoError)

vpcPeeringConnectionStatusNotFound == "NotFound"
vpcPeeringConnectionStatusUnknown == "Unknown"

\* StatusVPCPeeringConnection with expired and rejected left out of the switch
StatusVPCPeeringConnectionNoTerminal(resp) ==
    IF resp.err = "CodeNotFound"
    THEN PollOutcome(Nil, vpcPeeringConnectionStatusNotFound, NoError)
    ELSE IF resp.err # NoError THEN PollOutcome(Nil, vpcPeeringConnectionStatusUnknown, resp.err)
    ELSE IF resp.shape \in {"absent", "noStatus"}
         THEN PollOutcome(Nil, vpcPeeringConnectionStatusNotFound, NoError)
    ELSE IF StringValue(resp) \in {"failed", "deleted"}
         THEN PollOutcome(Nil, vpcPeeringConnectionStatusNotFound, NoError)
    ELSE PollOutcome(Obj(resp), StringValue(resp), NoError)

StatusVPCPeeringConnection(resp) ==
    IF resp.err = "CodeNotFound"
    THEN PollOutcome(Nil, vpcPeeringConnectionStatusNotFound, NoError)
    ELSE IF resp.err # NoError THEN PollOutcome(Nil, vpcPeeringConnectionStatusUnknown, resp.err)
    ELSE IF resp.shape \in {"absent", "noStatus"}
         THEN PollOutcome(Nil, vpcPeeringConnectionStatusNotFound, NoError)
    ELSE IF StringValue(resp) \in {"failed", "deleted", "expired", "rejected"}
         THEN PollOutcome(Nil, vpcPeeringConnectionStatusNotFound, NoError)
    ELSE PollOutcome(Obj(resp), StringValue(resp), NoError)

attachmentStateNotFound == "NotFound"
attachmentStateUnknown == "Unknown"

\* StatusVPNGatewayVPCAttachmentState handing the nil attachment's zero value on
StatusVPNGatewayVPCAttachmentStateKeepsPayload(resp) ==
    IF resp.err = "CodeNotFound" THEN PollOutcome(Nil, attachmentStateNotFound, NoError)
    ELSE IF resp.err # NoError THEN PollOutcome(Nil, attachmentStateUnknown, resp.err)
    ELSE IF resp.shape = "absent" THEN PollOutcome(Obj(resp), attachmentStateNotFound, NoError)
    ELSE PollOutcome(Obj(resp), StringValue(resp), NoError)

StatusVPNGatewayVPCAttachmentState(resp) ==
    IF resp.err = "CodeNotFound" THEN PollOutcome(Nil, attachmentStateNotFound, NoError)
    ELSE IF resp.err # NoError THEN PollOutcome(Nil, attachmentStateUnknown, resp.err)
    ELSE IF resp.shape = "absent" THEN PollOutcome(Nil, attachmentStateNotFound, NoError)
    ELSE PollOutcome(Obj(resp), StringValue(resp), NoError)

StatusHostState(resp) ==
    IF resp.err = "FinderNotFound" THEN PollOutcome(Nil, "", NoError)
    ELSE IF resp.err # NoError THEN PollOutcome(Nil, "", resp.err)
    ELSE PollOutcome(Obj(resp), StringValue(resp), NoError)

StatusManagedPrefixListState(resp) ==
    IF resp.err = "FinderNotFound" THEN PollOutcome(Nil, "", NoError)
    ELSE IF resp.err # NoError THEN PollOutcome(Nil, "", resp.err)
    ELSE PollOutcome(Obj(resp), StringValue(resp), NoError)

StatusVPCEndpointState(resp) ==
    IF resp.err = "FinderNotFound" THEN PollOutcome(Nil, "", NoError)
    ELSE IF resp.err # NoError THEN PollOutcome(Nil, "", resp.err)
    ELSE PollOutcome(Obj(resp), StringValue(resp), NoError)

VPCEndpointRouteTableAssociationStatusReady == "ready"

StatusVPCEndpointRouteTableAssociation(resp) ==
    IF resp.err = "FinderNotFound" THEN PollOutcome(Nil, "", NoError)
    ELSE IF resp.err # NoError THEN PollOutcome(Nil, "", resp.err)
    ELSE PollOutcome(EmptyString, VPCEndpointRouteTableAssociationStatusReady, NoError)

snapshotImportNotFound == "NotFound"
EBSSnapshotImportStateDeleting == "deleting"

StatusEBSSnapshotImport(resp) ==
    IF resp.err # NoError THEN PollOutcome(Nil, "", resp.err)
    ELSE IF resp.shape = "absent" THEN PollOutcome(Nil, snapshotImportNotFound, NoError)
    ELSE IF resp.shape = "nilElem" THEN PollOutcome(Nil, snapshotImportNotFound, NoError)
    \* detail.Status with a nil task.SnapshotTaskDetail
    ELSE IF resp.shape = "noStatus" THEN Panic
    ELSE IF StringValue(resp) = EBSSnapshotImportStateDeleting
         THEN PollOutcome(Obj(resp), StringValue(resp), DeletingError)
    ELSE PollOutcome(Obj(resp), StringValue(resp), NoError)

\* aws/internal/service/sfn/waiter/status.go
statusStateMachine(resp) ==
    IF resp.err = "FinderNotFound" THEN PollOutcome(Nil, "", NoError)
    ELSE IF resp.err # NoError THEN PollOutcome(Nil, "", resp.err)
    ELSE PollOutcome(Obj(resp), StringValue(resp), NoError)

(***************************************************************************)
(* The reducers by name, and what their describe / find call can answer.   *)
(***************************************************************************)
Reducers ==
    {"StatusCarrierGatewayState",
     "StatusLocalGatewayRouteTableVPCAssociationState",
     "StatusClientVPNEndpoint",
     "StatusClientVPNAuthorizationRule",
     "StatusClientVPNNetworkAssociation",
     "StatusClientVPNRoute",
     "StatusInstanceIAMInstanceProfile",
     "StatusRoute",
     "StatusRouteTable",
     "StatusRouteTableAssociationState",
     "StatusSecurityGroup",
     "StatusSubnetMapCustomerOwnedIPOnLaunch",
     "StatusSubnetMapPublicIPOnLaunch",
     "StatusTransitGatewayPrefixListReferenceState",
     "StatusTransitGatewayRouteTablePropagationState",
     "StatusVPCAttribute",
     "StatusVPCPeeringConnection",
     "StatusVPNGatewayVPCAttachmentState",
     "StatusHostState",
     "StatusManagedPrefixListState",
     "StatusVPCEndpointState",
     "StatusVPCEndpointRouteTableAssociation",
     "StatusEBSSnapshotImport",
     "statusStateMachine"}

Reduce(r, resp) ==
    CASE r = "StatusCarrierGatewayState" -> StatusCarrierGatewayState(resp)
      [] r = "StatusLocalGatewayRouteTableVPCAssociationState" -> StatusLocalGatewayRouteTableVPCAssociationState(resp)
      [] r = "StatusClientVPNEndpoint" -> StatusClientVPNEndpoint(resp)
      [] r = "StatusClientVPNAuthorizationRule" -> StatusClientVPNAuthorizationRule(resp)
      [] r = "StatusClientVPNNetworkAssociation" -> StatusClientVPNNetworkAssociation(resp)
      [] r = "StatusClientVPNRoute" -> StatusClientVPNRoute(resp)
      [] r = "StatusInstanceIAMInstanceProfile" -> StatusInstanceIAMInstanceProfile(resp)
      [] r = "StatusRoute" -> StatusRoute(resp)
      [] r = "StatusRouteTable" -> StatusRouteTable(resp)
      [] r = "StatusRouteTableAssociationState" -> StatusRouteTableAssociationState(resp)
      [] r = "StatusSecurityGroup" -> StatusSecurityGroup(resp)
      [] r = "StatusSubnetMapCustomerOwnedIPOnLaunch" -> StatusSubnetMapCustomerOwnedIPOnLaunch(resp)
      [] r = "StatusSubnetMapPublicIPOnLaunch" -> StatusSubnetMapPublicIPOnLaunch(resp)
      [] r = "StatusTransitGatewayPrefixListReferenceState" -> StatusTransitGatewayPrefixListReferenceState(resp)
      [] r = "StatusTransitGatewayRouteTablePropagationState" -> StatusTransitGatewayRouteTablePropagationState(resp)
      [] r = "StatusVPCAttribute" -> StatusVPCAttribute(resp)
      [] r = "StatusVPCPeeringConnection" -> StatusVPCPeeringConnection(resp)
      [] r = "StatusVPNGatewayVPCAttachmentState" -> StatusVPNGatewayVPCAttachmentState(resp)
      [] r = "StatusHostState" -> StatusHostState(resp)
      [] r = "StatusManagedPrefixListState" -> StatusManagedPrefixListState(resp)
      [] r = "StatusVPCEndpointState" -> StatusVPCEndpointState(resp)
      [] r = "StatusVPCEndpointRouteTableAssociation" -> StatusVPCEndpointRouteTableAssociation(resp)
      [] r = "StatusEBSSnapshotImport" -> StatusEBSSnapshotImport(resp)
      [] r = "statusStateMachine" -> statusStateMachine(resp)

\* Reducers that call the SDK directly (conn.Describe...): no finder stands
\* between them and the API, so no *resource.NotFoundError reaches them.
DirectDescribe ==
    {"StatusLocalGatewayRouteTableVPCAssociationState", "StatusClientVPNEndpoint",
     "StatusClientVPNNetworkAssociation", "StatusEBSSnapshotImport"}

\* The not-found class each reducer tests for: tfawserr.ErrCodeEquals with the
\* resource type's code, tfresource.NotFound, or no test at all.
TestsCodeNotFound ==
    {"StatusCarrierGatewayState", "StatusClientVPNEndpoint",
     "StatusClientVPNAuthorizationRule", "StatusClientVPNNetworkAssociation",
     "StatusClientVPNRoute", "StatusInstanceIAMInstanceProfile",
     "StatusSubnetMapCustomerOwnedIPOnLaunch", "StatusSubnetMapPublicIPOnLaunch",
     "StatusVPCAttribute", "StatusVPCPeeringConnection",
     "StatusVPNGatewayVPCAttachmentState"}
TestsFinderNotFound ==
    {"StatusRoute", "StatusRouteTable", "StatusRouteTableAssociationState",
     "StatusSecurityGroup", "StatusHostState", "StatusManagedPrefixListState",
     "StatusVPCEndpointState", "StatusVPCEndpointRouteTableAssociation",
     "statusStateMachine"}
NotFoundClass(r) ==
    IF r \in TestsCodeNotFound THEN "CodeNotFound"
    ELSE IF r \in TestsFinderNotFound THEN "FinderNotFound"
    ELSE NoError

\* The status a reducer pairs with a recognised not-found error.
NotFoundStatusOf(r) ==
    IF r \in {"StatusCarrierGatewayState", "StatusClientVPNEndpoint",
              "StatusClientVPNAuthorizationRule", "StatusClientVPNNetworkAssociation",
              "StatusClientVPNRoute", "StatusSecurityGroup",
              "StatusVPCPeeringConnection", "StatusVPNGatewayVPCAttachmentState"}
    THEN "NotFound"
    ELSE IF r \in {"StatusSubnetMapCustomerOwnedIPOnLaunch",
                   "StatusSubnetMapPublicIPOnLaunch"}
    THEN "false"
    ELSE ""

\* Shapes a successful answer can take, by the type the call returns.  A
\* finder that reports an empty result as NotFoundError (the contract stated
\* in finder.go) never answers (nil, nil).
ShapesOf(r) ==
    CASE r \in {"StatusClientVPNEndpoint", "StatusClientVPNNetworkAssociation"}
            -> {"absent", "nilElem", "noStatus", "noCode", "multi", "full"}
      [] r \in {"StatusClientVPNAuthorizationRule", "StatusClientVPNRoute"}
            -> {"absent", "nilElem", "noStatus", "noCode", "multi", "full"}
      [] r = "StatusEBSSnapshotImport"
            -> {"absent", "nilElem", "noStatus", "noCode", "multi", "full"}
      [] r = "StatusLocalGatewayRouteTableVPCAssociationState"
            -> {"absent", "nilElem", "noCode", "full"}
      [] r = "StatusInstanceIAMInstanceProfile"
            -> {"absent", "noStatus", "noCode", "invalid", "full"}
      [] r = "StatusVPCPeeringConnection"
            -> {"absent", "noStatus", "noCode", "full"}
      [] r = "StatusRouteTableAssociationState"
            -> {"noStatus", "noCode", "full"}
      [] r \in {"StatusCarrierGatewayState", "StatusVPNGatewayVPCAttachmentState",
                "StatusTransitGatewayPrefixListReferenceState",
                "StatusTransitGatewayRouteTablePropagationState",
                "StatusSubnetMapCustomerOwnedIPOnLaunch",
                "StatusSubnetMapPublicIPOnLaunch"}
            -> {"absent", "noCode", "full"}
      [] r = "StatusVPCAttribute" -> {"absent", "full"}
      [] r \in {"StatusHostState", "StatusManagedPrefixListState",
                "StatusVPCEndpointState", "statusStateMachine"}
            -> {"noCode", "full"}
      [] OTHER -> {"full"}

\* Values of the lifecycle field of a full answer.
StatesOf(r) ==
    CASE r \in {"StatusSubnetMapCustomerOwnedIPOnLaunch",
                "StatusSubnetMapPublicIPOnLaunch", "StatusVPCAttribute"} -> BoolValues
      [] r = "StatusInstanceIAMInstanceProfile" -> {"my-profile"}
      [] r \in {"StatusRoute", "StatusRouteTable", "StatusSecurityGroup",
                "StatusVPCEndpointRouteTableAssociation"} -> {"available"}
      [] OTHER -> LifecycleValues

ErrKindsOf(r) == IF r \in DirectDescribe THEN ErrKinds \ {"FinderNotFound"} ELSE ErrKinds

\* Every answer the g-th describe / find call of reducer r can get.
Responses(r, g) ==
    {ErrResp(e, g) : e \in ErrKindsOf(r)}
    \cup {OkResp(sh, "", g) : sh \in ShapesOf(r) \ {"full", "multi"}}
    \cup {OkResp(sh, st, g) : sh \in ShapesOf(r) \cap {"full", "multi"}, st \in StatesOf(r)}

(***************************************************************************)
(* The retry driver (section 4.2 of the specification).                    *)
(***************************************************************************)
TimeoutError == "TimeoutError"
UnexpectedStateError == "UnexpectedStateError"
ContextCanceled == "context canceled"

\* every poll cycle takes at least one tick of the clock
MinTick == 1

Policies ==
    [delay : 0..MaxDelay, delayRand : 0..MaxDelayRand, minTimeout : 0..MaxPollInterval,
     pollInterval : 0..MaxPollInterval, timeout : (MaxDelay + MaxDelayRand)..MaxTimeout]

\* The time between two polls: the poll interval, or the minimum-timeout
\* floor when no interval is configured.
PollWait(p) ==
    IF p.pollInterval > 0 THEN p.pollInterval ELSE Max(p.minTimeout, MinTick)

\* Transient provider errors are retryable.
IsRetryableKind(e) == e = "Throttling"

\* Transition rule: the driver's next state for one poll outcome.
\* the transition rule without the failure set
TransitionNoFailureSet(o, targets, failures) ==
    IF o.err # NoError THEN (IF IsRetryableKind(o.err) THEN "Pending" ELSE "Failure")
    ELSE IF o.status \in targets THEN "Target"
    ELSE "Pending"

Transition(o, targets, failures) ==
    IF o.err # NoError THEN (IF IsRetryableKind(o.err) THEN "Pending" ELSE "Failure")
    ELSE IF o.status \in targets THEN "Target"
    ELSE IF o.status \in failures THEN "Failure"
    ELSE "Pending"

\* Failure carries the last error, or a synthesized one.
FailureError(o) == IF o.err # NoError THEN o.err ELSE UnexpectedStateError

\* The deadline test made after a poll that left the driver Pending.
Expired(p, elapsed) == elapsed >= p.timeout

(***************************************************************************)
(* Polling one resource: a caller hands a reducer, its status sets and a   *)
(* policy to the driver.                                                   *)
(***************************************************************************)
\* Status sets callers configure: waiting for creation, for an attribute or
\* association to settle, and for a deleted lifecycle value.
ConfiguredSets ==
    { <<{"available", "ready", "Created", "true", "my-profile"}, {"failed"}>>,
      <<{"false", "disassociated", "deleting"}, {"failed", "rejected"}>>,
      <<{"deleted"}, {"failed", "Unknown"}>> }

PollPolicies == {p \in Policies : p.delay = 0 /\ p.delayRand = 0 /\ p.minTimeout = 0}

PStateOff ==
    [phase |-> "off", state |-> "Pending", polls |-> 0, elapsed |-> 0,
     result |-> Nil, err |-> NoError]

InitPState ==
    [phase |-> "init", state |-> "Pending", polls |-> 0, elapsed |-> 0,
     result |-> Nil, err |-> NoError]

NoResp == [err |-> NoError, shape |-> "absent", state |-> "", gen |-> 0]

SweepIdle == /\ ctxDone = FALSE
             /\ items = <<>>
             /\ orch = [pc |-> "off", entry |-> "none", errs |-> {}]

\* no caller of SharedRegionalSweepClient
NoCallers ==
    [initialised |-> FALSE, env |-> "ok", map |-> <<>>, built |-> <<>>,
     callers |-> <<>>, fatal |-> FALSE]
ClientsIdle == cli = NoCallers

\* no call of SkipSweepError
NilError == [kind |-> "nil", code |-> "", message |-> ""]
NoSkipCall == [pc |-> "off", err |-> NilError, result |-> FALSE]
SkipIdle == skip = NoSkipCall

\* no refresh function called directly
NoRefresh ==
    [pc |-> "off", reducer |-> "none", remote |-> NoResp, first |-> NoOutcome,
     second |-> NoOutcome]
RefreshIdle == twice = NoRefresh

\* no direct call of DeleteResource
NoDeleteCall ==
    [pc |-> "off", resource |-> "none", reply |-> "none", invoked |-> <<>>,
     err |-> NoError]
\* no finder called
NoFinderCall ==
    [pc |-> "off", finder |-> "none", output |-> "nil", err |-> NilError,
     ret |-> [result |-> Nil, err |-> NilError]]
\* no destroy check called
NoDestroyCheck == [pc |-> "off", check |-> "none", state |-> <<>>, err |-> NoError]
\* no operation of the webhook resource
NoWebhookCall ==
    [op |-> "none", pc |-> "off", id |-> "", arn |-> "", listing |-> <<>>,
     nextToken |-> "", sent |-> [present |-> FALSE, value |-> ""],
     got |-> [present |-> FALSE, value |-> ""], requests |-> 0,
     served |-> {}, repeated |-> FALSE,
     webhook |-> [Arn |-> "", Name |-> "", page |-> 0], err |-> NilError,
     readErr |-> NilError, name |-> "", exists |-> FALSE, deletes |-> <<>>]
\* the data source is not read
NoPoolsRead ==
    [pc |-> "off", name |-> "", listing |-> <<>>, nextToken |-> "",
     requests |-> 0, served |-> {}, repeated |-> FALSE, collected |-> <<>>,
     listErr |-> NilError, id |-> "", ids |-> <<>>, arns |-> <<>>, err |-> NilError]
CallsIdle ==
    /\ delcall = NoDeleteCall
    /\ find = NoFinderCall
    /\ destroy = NoDestroyCheck
    /\ wh = NoWebhookCall
    /\ pools = NoPoolsRead

InitPoll ==
    /\ rname \in Reducers
    /\ \E c \in ConfiguredSets : targetSet = c[1] /\ failureSet = c[2]
    /\ policy \in PollPolicies
    /\ pstate = InitPState
    /\ lastResp = NoResp
    /\ outcome = NoOutcome
    /\ SweepIdle
    /\ ClientsIdle
    /\ SkipIdle
    /\ RefreshIdle
    /\ CallsIdle

\* the initial delay plus its random jitter
PollBegin ==
    /\ pstate.phase = "init"
    /\ \E j \in 0..policy.delayRand :
         pstate' = [pstate EXCEPT !.phase = "poll", !.elapsed = policy.delay + j]
    /\ UNCHANGED <<rname, targetSet, failureSet, policy, lastResp, outcome, sweepVars, helperVars, callVars>>

\* One poll: the reducer's describe call gets an answer, the reducer reduces
\* it, the driver applies the transition rule.
PollStep(resp) ==
    LET o == Reduce(rname, resp)
        next == IF o.panicked THEN "Aborted" ELSE Transition(o, targetSet, failureSet)
    IN /\ lastResp' = resp
       /\ outcome' = o
       /\ pstate' = [pstate EXCEPT
                       !.polls = @ + 1,
                       !.state = next,
                       !.phase = IF next = "Pending" THEN "wait" ELSE "done",
                       !.result = IF next = "Target" THEN o.payload ELSE Nil,
                       !.err = IF next = "Failure" THEN FailureError(o) ELSE NoError]

Poll ==
    /\ pstate.phase = "poll"
    /\ pstate.state = "Pending"
    /\ \E resp \in Responses(rname, pstate.polls + 1) : PollStep(resp)
    /\ UNCHANGED <<rname, targetSet, failureSet, policy, sweepVars, helperVars, callVars>>

\* Still Pending after a poll: give up at the deadline, else sleep.
PollSleep ==
    /\ pstate.phase = "wait"
    /\ IF Expired(policy, pstate.elapsed)
       THEN pstate' = [pstate EXCEPT !.phase = "done", !.state = "TimedOut",
                                     !.err = TimeoutError]
       ELSE pstate' = [pstate EXCEPT !.phase = "poll",
                                     !.elapsed = @ + PollWait(policy)]
    /\ UNCHANGED <<rname, targetSet, failureSet, policy, lastResp, outcome, sweepVars, helperVars, callVars>>

NextPoll == PollBegin \/ Poll \/ PollSleep

(***************************************************************************)
(* The sweeper (internal/sweep/sweep.go).                                  *)
(***************************************************************************)
\* err.Error() of the errors a delete handler's API call can end with
ThrottlingError == "Throttling: Rate exceeded"
RequestLimitError == "RequestLimitExceeded: Request limit exceeded."
DependencyError == "DependencyViolation: resource has a dependent object"
ApiErrors == {ThrottlingError, RequestLimitError, DependencyError}

\* The provider's rate-limiting responses, by error code.
RateLimitCodes == {"Throttling", "ThrottlingException", "RequestLimitExceeded",
                   "TooManyRequestsException"}
IsRateLimitError(e) == \E c \in RateLimitCodes : Contains(e, c)

\* diag.Diagnostic
DiagError == "Error"
DiagWarning == "Warning"
Diag(sev, summary) == [Severity |-> sev, Summary |-> summary]
DeprecationWarning == Diag(DiagWarning, "argument is deprecated")

\* What the delete handlers can return: diagnostics (DeleteContext,
\* DeleteWithoutTimeout) or an error (Delete).
DiagsSet ==
    {<<>>, <<DeprecationWarning>>}
    \cup {<<Diag(DiagError, e)>> : e \in ApiErrors}
    \cup {<<DeprecationWarning, Diag(DiagError, e)>> : e \in ApiErrors}
    \cup {<<Diag(DiagError, DependencyError), Diag(DiagError, ThrottlingError)>>}

\* schema.Resource: which of its delete handlers are set
Resource(dc, dwt, d) == [DeleteContext |-> dc, DeleteWithoutTimeout |-> dwt, Delete |-> d]
Resources == {Resource(TRUE, TRUE, TRUE), Resource(FALSE, TRUE, FALSE),
              Resource(FALSE, FALSE, TRUE)}

Reply(diags, err) == [diags |-> diags, err |-> err]
RepliesOf(resource) ==
    IF resource.DeleteContext \/ resource.DeleteWithoutTimeout
    THEN {Reply(d, NoError) : d \in DiagsSet}
    ELSE {Reply(<<>>, e) : e \in ApiErrors \cup {NoError}}

\* The context DeleteResource hands to the delete handler it invokes:
\* context.Background() for DeleteContext and DeleteWithoutTimeout, none for
\* Delete; never the context of SweepOrchestratorContext.
DeleteCallContext(resource) ==
    IF resource.DeleteContext \/ resource.DeleteWithoutTimeout
    THEN "Background" ELSE "none"

\* What a delete handler in progress can return, given whether the
\* orchestrator's context is done: a handler bound to that context would end
\* with its cancellation error.
CallReplies(resource, done) ==
    IF DeleteCallContext(resource) = "ctx" /\ done
    THEN {Reply(<<Diag(DiagError, ContextCanceled)>>, NoError)}
    ELSE RepliesOf(resource)

\* DeleteResource reporting the last diagnostic of Error severity
DeleteResourceLastError(resource, reply) ==
    IF resource.DeleteContext \/ resource.DeleteWithoutTimeout
    THEN LET diags == reply.diags
             errs == {i \in DOMAIN diags : diags[i].Severity = DiagError}
             last == CHOOSE i \in errs : \A j \in errs : i >= j
         IN [handler |-> IF resource.DeleteContext THEN "DeleteContext"
                         ELSE "DeleteWithoutTimeout",
             err |-> IF errs # {}
                     THEN "error deleting resource: " \o diags[last].Summary
                     ELSE NoError]
    ELSE [handler |-> "Delete", err |-> reply.err]

\* DeleteResource: the handler it invokes and the error it returns, given
\* what that handler answers.
DeleteResource(resource, reply) ==
    IF resource.DeleteContext \/ resource.DeleteWithoutTimeout
    THEN LET diags == reply.diags
             errs == {i \in DOMAIN diags : diags[i].Severity = DiagError}
             first == CHOOSE i \in errs : \A j \in errs : i <= j
         IN [handler |-> IF resource.DeleteContext THEN "DeleteContext"
                         ELSE "DeleteWithoutTimeout",
             err |-> IF errs # {}
                     THEN "error deleting resource: " \o diags[first].Summary
                     ELSE NoError]
    ELSE [handler |-> "Delete", err |-> reply.err]

\* resource.RetryError
NilRetryError == [kind |-> "nil", err |-> NoError]
RetryableError(e) == [kind |-> "retryable", err |-> e]
NonRetryableError(e) == [kind |-> "nonretryable", err |-> e]

\* the retry closure with the non-throttling branch returning nil
RetryFuncSwallowsError(err) ==
    IF err # NoError
    THEN IF Contains(err, "Throttling") THEN RetryableError(err) ELSE NilRetryError
    ELSE NilRetryError

\* the retry closure without the throttling branch
RetryFuncNoThrottlingBranch(err) ==
    IF err # NoError THEN NonRetryableError(err) ELSE NilRetryError

\* The closure SweepOrchestratorContext hands to RetryConfigContext, applied
\* to the error DeleteResource returned.
RetryFunc(err) ==
    IF err # NoError
    THEN IF Contains(err, "Throttling") THEN RetryableError(err)
         ELSE NonRetryableError(err)
    ELSE NilRetryError

\* The driver's transition rule for a retry closure's answer.
RetryTransition(rerr) ==
    CASE rerr.kind = "nil" -> "Target"
      [] rerr.kind = "retryable" -> "Pending"
      [] rerr.kind = "nonretryable" -> "Failure"

\* tfresource.TimedOut
TimedOut(err) == err = TimeoutError

NewItem(resource) ==
    [resource |-> resource, item |-> 0, pc |-> "idle", loop |-> "Pending", elapsed |-> 0,
     calls |-> 0, extra |-> 0, allThrottling |-> TRUE, allRateLimited |-> TRUE,
     lastErr |-> NoError, lastRetry |-> NilRetryError, loopErr |-> NoError,
     extraErr |-> NoError, err |-> NoError]

PollIdle ==
    /\ rname = "none"
    /\ targetSet = {}
    /\ failureSet = {}
    /\ pstate = PStateOff
    /\ lastResp = NoResp
    /\ outcome = NoOutcome

\* SweepOrchestrator's arguments to SweepOrchestratorContext: no delay, no
\* interval, and SweepThrottlingRetryTimeout.
DefaultPolicy ==
    [delay |-> 0, delayRand |-> 0, minTimeout |-> 0, pollInterval |-> 0,
     timeout |-> SweepThrottlingRetryTimeout]

\* The policies handed to SweepOrchestratorContext: the minimum timeout is
\* read only when no poll interval is set, and a delay is fixed or random.
SweepPolicies ==
    {p \in Policies : /\ p.pollInterval = 0 \/ p.minTimeout = 0
                      /\ p.delay = 0 \/ p.delayRand = 0}

\* the resource type of a sweeper's list
ListResources == {Resource(TRUE, TRUE, TRUE)}

\* A sweeper calls SweepOrchestrator with the list of sweep resources it
\* built for its resource type (context.Background(), the default policy), or
\* a caller hands SweepOrchestratorContext a context, a resource and a policy
\* of its own.
InitSweep ==
    /\ \/ /\ orch = [pc |-> "call", entry |-> "SweepOrchestrator", errs |-> {}]
          /\ policy = DefaultPolicy
          /\ \E n \in 0..NumItems : \E r \in ListResources :
                items = [i \in 1..n |-> NewItem(r)]
       \/ /\ orch = [pc |-> "call", entry |-> "SweepOrchestratorContext", errs |-> {}]
          /\ policy \in SweepPolicies
          /\ items \in {<<NewItem(r)>> : r \in Resources}
    /\ ctxDone = FALSE
    /\ PollIdle
    /\ ClientsIdle
    /\ SkipIdle
    /\ RefreshIdle
    /\ CallsIdle

\* the loop variable the closure of iteration w captures, as the copy of it
\* made per iteration shares nothing with the other iterations
CapturedLoopVariable(w, n) == n

\* The sweep resource the worker started in iteration w of n works on: the
\* iteration's own copy of the loop variable.
CapturedItem(w, n) == w

\* the for loop: g.Go starts one worker per sweep resource
SweepOrchestratorContext ==
    /\ orch.pc = "call"
    /\ orch' = [orch EXCEPT !.pc = "wait"]
    /\ items' = [w \in DOMAIN items |->
                   LET k == CapturedItem(w, Len(items))
                   IN [items[w] EXCEPT !.pc = "start", !.item = k,
                                       !.resource = items[k].resource]]
    /\ UNCHANGED <<pollVars, helperVars, callVars, policy, ctxDone>>

\* the caller cancels the context, or its deadline passes
Cancel ==
    /\ orch.pc \in {"call", "wait"}
    /\ orch.entry = "SweepOrchestratorContext"
    /\ ~ctxDone
    /\ ctxDone' = TRUE
    /\ UNCHANGED <<pollVars, helperVars, callVars, policy, items, orch>>

\* the loop gives up on a cancelled context
Abort(it) ==
    [it EXCEPT !.pc = "after", !.loop = "Failure", !.loopErr = ContextCanceled]

\* RetryConfigContext starts: the initial delay plus its random jitter
WorkerBegin(i) ==
    /\ items[i].pc = "start"
    /\ \/ /\ ctxDone
          /\ items' = [items EXCEPT ![i] = Abort(@)]
       \/ /\ ~ctxDone
          /\ \E j \in 0..policy.delayRand :
               items' = [items EXCEPT ![i] = [@ EXCEPT !.pc = "attempt",
                                                       !.elapsed = policy.delay + j]]
    /\ UNCHANGED <<pollVars, helperVars, callVars, policy, ctxDone, orch>>

\* One attempt of the retry loop: the closure calls DeleteResource and
\* classifies its error; the driver applies the transition rule.
AttemptStep(it, reply) ==
    LET del == DeleteResource(it.resource, reply)
        rerr == RetryFunc(del.err)
        next == RetryTransition(rerr)
    IN [it EXCEPT !.calls = @ + 1,
                  !.lastErr = del.err,
                  !.lastRetry = rerr,
                  !.allThrottling = @ /\ del.err # NoError /\ Contains(del.err, "Throttling"),
                  !.allRateLimited = @ /\ del.err # NoError /\ IsRateLimitError(del.err),
                  !.loop = next,
                  !.loopErr = IF next = "Failure" THEN rerr.err ELSE NoError,
                  !.pc = IF next = "Pending" THEN "wait" ELSE "after"]

\* The driver runs the closure unless the context is done; the closure calls
\* DeleteResource: the delete handler's API call is in progress.
AttemptCall(i) ==
    /\ items[i].pc = "attempt"
    /\ items' = [items EXCEPT ![i] = IF ctxDone THEN Abort(@)
                                     ELSE [@ EXCEPT !.pc = "calling"]]
    /\ UNCHANGED <<pollVars, helperVars, callVars, policy, ctxDone, orch>>

\* the delete handler returns
Attempt(i) ==
    /\ items[i].pc = "calling"
    /\ \E reply \in CallReplies(items[i].resource, ctxDone) :
         items' = [items EXCEPT ![i] = AttemptStep(@, reply)]
    /\ UNCHANGED <<pollVars, helperVars, callVars, policy, ctxDone, orch>>

\* Still Pending after an attempt: stop on cancellation, give up at the
\* deadline, else sleep until the next attempt.
WorkerSleep(i) ==
    /\ items[i].pc = "wait"
    /\ items' = [items EXCEPT ![i] =
                   IF ctxDone THEN Abort(@)
                   ELSE IF Expired(policy, @.elapsed)
                   THEN [@ EXCEPT !.pc = "after", !.loop = "TimedOut",
                                  !.loopErr = TimeoutError]
                   ELSE [@ EXCEPT !.pc = "attempt",
                                  !.elapsed = @ + PollWait(policy)]]
    /\ UNCHANGED <<pollVars, helperVars, callVars, policy, ctxDone, orch>>

\* the worker with the extra delete made after any error of the loop
WorkerReturnExtraOnAnyError(it, reply) ==
    IF it.loopErr # NoError
    THEN LET del == DeleteResource(it.resource, reply)
         IN [it EXCEPT !.pc = "done", !.extra = @ + 1, !.extraErr = del.err,
                       !.err = del.err]
    ELSE [it EXCEPT !.pc = "done", !.err = it.loopErr]

\* The worker after the retry loop: one more DeleteResource when the loop
\* timed out, whose result is what the worker returns.
WorkerReturn(it, reply) ==
    IF TimedOut(it.loopErr)
    THEN LET del == DeleteResource(it.resource, reply)
         IN [it EXCEPT !.pc = "done", !.extra = @ + 1, !.extraErr = del.err,
                       !.err = del.err]
    ELSE [it EXCEPT !.pc = "done", !.err = it.loopErr]

WorkerFinish(i) ==
    /\ items[i].pc = "after"
    /\ \E reply \in RepliesOf(items[i].resource) :
         items' = [items EXCEPT ![i] = WorkerReturn(@, reply)]
    /\ UNCHANGED <<pollVars, helperVars, callVars, policy, ctxDone, orch>>

\* a group that keeps only the error of the first worker that failed
GroupErrorsFirstOnly(its) ==
    LET failed == {k \in DOMAIN its : its[k].err # NoError}
    IN IF failed = {} THEN {}
       ELSE LET f == CHOOSE k \in failed : \A j \in failed : k <= j
            IN {<<f, its[f].err>>}

\* multierror.Group: the non-nil errors the workers returned, one per worker
\* (the empty set is ErrorOrNil's nil)
GroupErrors(its) ==
    {<<i, its[i].err>> : i \in {k \in DOMAIN its : its[k].err # NoError}}

\* g.Wait().ErrorOrNil(): every worker has returned; the non-nil errors are
\* collected
SweepWait ==
    /\ orch.pc = "wait"
    /\ \A i \in DOMAIN items : items[i].pc = "done"
    /\ orch' = [orch EXCEPT !.pc = "returned", !.errs = GroupErrors(items)]
    /\ UNCHANGED <<pollVars, helperVars, callVars, policy, ctxDone, items>>

NextSweep ==
    \/ SweepOrchestratorContext
    \/ Cancel
    \/ \E i \in DOMAIN items : WorkerBegin(i)
    \/ \E i \in DOMAIN items : AttemptCall(i)
    \/ \E i \in DOMAIN items : Attempt(i)
    \/ \E i \in DOMAIN items : WorkerSleep(i)
    \/ \E i \in DOMAIN items : WorkerFinish(i)
    \/ SweepWait

(***************************************************************************)
(* SharedRegionalSweepClient and the SweeperClients cache.                 *)
(***************************************************************************)
Regions == {"us-west-2", "us-east-1"}
NoClient == 0

\* The process environment: credentials present and well-formed, or one of
\* the settings SharedRegionalSweepClient rejects.
Envs == {"ok", "noCredentials", "noSecretAccessKey", "badAssumeRoleDuration"}

EnvError(env) ==
    CASE env = "noCredentials" -> "credentials for running sweepers must be set"
      [] env = "noSecretAccessKey" -> "static credentials value must be set"
      [] env = "badAssumeRoleDuration" -> "environment variable: invalid syntax"
      [] OTHER -> NoError
ClientError == "error getting AWS client"

NewCaller(region) ==
    [pc |-> "lookup", region |-> region, client |-> NoClient, result |-> NoClient,
     err |-> NoError, after |-> FALSE, readEnv |-> FALSE]

\* SweeperClients is declared without an initialiser (a nil map); a test
\* main may have assigned it an empty map before the sweepers run.
InitClients ==
    /\ \E init \in BOOLEAN, env \in Envs, n \in 1..NumCallers :
         \E regs \in [1..n -> Regions] :
            cli = [initialised |-> init, env |-> env,
                   map |-> [r \in Regions |-> NoClient],
                   built |-> [r \in Regions |-> 0],
                   callers |-> [c \in 1..n |-> NewCaller(regs[c])],
                   fatal |-> FALSE]
    /\ PollIdle
    /\ policy = DefaultPolicy
    /\ SweepIdle
    /\ SkipIdle
    /\ RefreshIdle
    /\ CallsIdle

Caller(c) == cli.callers[c]

\* another caller is at an access of the map while caller c is at one
OtherAtMap(c) ==
    \E d \in DOMAIN cli.callers \ {c} : Caller(d).pc \in {"lookup", "store"}

\* an earlier call of SharedRegionalSweepClient has returned
SomeReturned == \E d \in DOMAIN cli.callers : Caller(d).pc \in {"done", "panic"}

\* line 40: the read of the map (a nil map reads as empty); a hit returns
\* the stored client at line 41
ClientLookup(c) ==
    /\ Caller(c).pc = "lookup"
    /\ ~cli.fatal
    /\ LET hit == cli.initialised /\ cli.map[Caller(c).region] # NoClient
       IN cli' = [cli EXCEPT !.callers[c] =
                     IF hit THEN [@ EXCEPT !.pc = "done", !.after = SomeReturned,
                                           !.result = cli.map[Caller(c).region]]
                     ELSE [@ EXCEPT !.pc = "configure", !.after = SomeReturned]]
    /\ UNCHANGED <<pollVars, policy, sweepVars, skip, twice, callVars>>

\* a failing call that leaves a nil entry for its region in the cache
ReturnErrorCachingNil(cl, c, err) ==
    [cl EXCEPT !.callers[c] = [@ EXCEPT !.pc = "done", !.err = err, !.readEnv = TRUE],
               !.map[cl.callers[c].region] = NumCallers + 1]

\* lines 46, 52, 68, 85: return nil, err, after the environment was read
ReturnError(cl, c, err) ==
    [cl EXCEPT !.callers[c] = [@ EXCEPT !.pc = "done", !.err = err, !.readEnv = TRUE]]

\* lines 44-86: the environment checks (os.Getenv, on every call that missed
\* the cache) and conf.Client(), which can fail
ClientConfigure(c) ==
    /\ Caller(c).pc = "configure"
    /\ ~cli.fatal
    /\ \/ /\ cli.env # "ok"
          /\ cli' = ReturnError(cli, c, EnvError(cli.env))
       \/ /\ cli.env = "ok"
          /\ cli' = ReturnError(cli, c, ClientError)
       \/ /\ cli.env = "ok"
          /\ cli' = [cli EXCEPT !.callers[c] = [@ EXCEPT !.pc = "store", !.client = c,
                                                         !.readEnv = TRUE],
                                !.built[Caller(c).region] = @ + 1]
    /\ UNCHANGED <<pollVars, policy, sweepVars, skip, twice, callVars>>

\* lines 88-90: the write to the map and the return.  A write to a nil map
\* panics; a write while another goroutine accesses the map is a data race,
\* which the runtime may detect and end the process for.
ClientStore(c) ==
    /\ Caller(c).pc = "store"
    /\ ~cli.fatal
    /\ \/ /\ ~cli.initialised
          /\ cli' = [cli EXCEPT !.callers[c] = [@ EXCEPT !.pc = "panic"]]
       \/ /\ cli.initialised
          /\ cli' = [cli EXCEPT !.map[Caller(c).region] = Caller(c).client,
                                !.callers[c] = [@ EXCEPT !.pc = "done",
                                                         !.result = Caller(c).client]]
       \/ /\ cli.initialised
          /\ OtherAtMap(c)
          /\ cli' = [cli EXCEPT !.fatal = TRUE]
    /\ UNCHANGED <<pollVars, policy, sweepVars, skip, twice, callVars>>

NextClients ==
    \/ \E c \in DOMAIN cli.callers : ClientLookup(c)
    \/ \E c \in DOMAIN cli.callers : ClientConfigure(c)
    \/ \E c \in DOMAIN cli.callers : ClientStore(c)

(***************************************************************************)
(* SkipSweepError.                                                         *)
(***************************************************************************)
\* Errors a sweeper's API call can return: nil, an awserr.Error with a code
\* and a message, or an error of another type.
AwsError(code, message) == [kind |-> "aws", code |-> code, message |-> message]
OtherError(message) == [kind |-> "other", code |-> "", message |-> message]

SkipEntry(code, message) == [code |-> code, message |-> message, skip |-> TRUE]

\* the tests of SkipSweepError in declared order, each returning true
SkipTable ==
    << SkipEntry("RequestError", "send request failed"),
       SkipEntry("UnsupportedOperation", ""),
       SkipEntry("InvalidParameterValue", "not permitted in this API version for your account"),
       SkipEntry("InvalidParameterValue", "Access Denied to API Version"),
       SkipEntry("AccessDeniedException", ""),
       SkipEntry("BadRequestException", "not supported"),
       SkipEntry("InvalidAction", "is not valid"),
       SkipEntry("InvalidAction", "Unavailable Operation"),
       SkipEntry("InvalidKeySigningKeyStatus", "cannot be deleted because"),
       SkipEntry("KeySigningKeyInParentDSRecord", "Due to DNS lookup failure"),
       SkipEntry("UnsupportedCommandException", "command is only supported in") >>

ErrorCodes ==
    {SkipTable[i].code : i \in DOMAIN SkipTable} \cup {"DependencyViolation"}

ErrorMessages ==
    {SkipTable[i].message : i \in DOMAIN SkipTable}
    \cup {"resource has a dependent object",
          "Access Denied to API Version: use is not permitted in this API version for your account",
          "Unavailable Operation: the action is not valid for this web service"}

SweepErrors ==
    {NilError, OtherError("send request failed"), OtherError("not supported")}
    \cup {AwsError(c, m) : c \in ErrorCodes, m \in ErrorMessages}

\* tfawserr.ErrMessageContains
ErrMessageContains(err, code, message) ==
    /\ err.kind = "aws"
    /\ err.code = code
    /\ Contains(err.message, message)

\* the table evaluated on the error code alone
SkipSweepErrorCodeOnly(err) ==
    \E i \in DOMAIN SkipTable : err.kind = "aws" /\ err.code = SkipTable[i].code

\* the first test from position i on that the error passes, 0 if none
RECURSIVE FirstMatchFrom(_, _)
FirstMatchFrom(err, i) ==
    IF i > Len(SkipTable) THEN 0
    ELSE IF ErrMessageContains(err, SkipTable[i].code, SkipTable[i].message) THEN i
    ELSE FirstMatchFrom(err, i + 1)

\* SkipSweepError: the tests in order, the first that passes returns; false
\* when none does.
SkipSweepError(err) ==
    LET i == FirstMatchFrom(err, 1)
    IN IF i = 0 THEN FALSE ELSE SkipTable[i].skip

InitSkip ==
    /\ \E e \in SweepErrors : skip = [pc |-> "call", err |-> e, result |-> FALSE]
    /\ PollIdle
    /\ policy = DefaultPolicy
    /\ SweepIdle
    /\ ClientsIdle
    /\ RefreshIdle
    /\ CallsIdle

SkipSweepErrorCall ==
    /\ skip.pc = "call"
    /\ skip' = [skip EXCEPT !.pc = "returned", !.result = SkipSweepError(skip.err)]
    /\ UNCHANGED <<pollVars, policy, sweepVars, cli, twice, callVars>>

NextSkip == SkipSweepErrorCall

(***************************************************************************)
(* A refresh function called twice while the resource does not change.     *)
(***************************************************************************)
\* the answer of the g-th describe / find call for a remote state
Answer(remote, g) == [remote EXCEPT !.gen = g]

InitRefresh ==
    /\ \E r \in Reducers : \E remote \in Responses(r, 0) :
         twice = [pc |-> "first", reducer |-> r, remote |-> remote,
                  first |-> NoOutcome, second |-> NoOutcome]
    /\ PollIdle
    /\ policy = DefaultPolicy
    /\ SweepIdle
    /\ ClientsIdle
    /\ SkipIdle
    /\ CallsIdle

\* one call of the closure a Status function returned
Refresh ==
    /\ twice.pc \in {"first", "second"}
    /\ twice' = IF twice.pc = "first"
                THEN [twice EXCEPT !.pc = "second",
                                   !.first = Reduce(twice.reducer, Answer(twice.remote, 1))]
                ELSE [twice EXCEPT !.pc = "done",
                                   !.second = Reduce(twice.reducer, Answer(twice.remote, 2))]
    /\ UNCHANGED <<pollVars, policy, sweepVars, cli, skip, callVars>>

NextRefresh == Refresh

(***************************************************************************)
(* DeleteResource called on its own, for every resource that has a delete  *)
(* handler.                                                                *)
(***************************************************************************)
DeleteResources ==
    {Resource(dc, dwt, d) : dc \in BOOLEAN, dwt \in BOOLEAN, d \in BOOLEAN}
    \ {Resource(FALSE, FALSE, FALSE)}

OthersIdle ==
    /\ PollIdle
    /\ policy = DefaultPolicy
    /\ SweepIdle
    /\ ClientsIdle
    /\ SkipIdle
    /\ RefreshIdle

InitDelete ==
    /\ \E r \in DeleteResources : \E reply \in RepliesOf(r) :
         delcall = [pc |-> "call", resource |-> r, reply |-> reply,
                    invoked |-> <<>>, err |-> NoError]
    /\ OthersIdle
    /\ find = NoFinderCall
    /\ destroy = NoDestroyCheck
    /\ wh = NoWebhookCall
    /\ pools = NoPoolsRead

\* lines 198-218: the handler is invoked and its answer converted
DeleteResourceCall ==
    /\ delcall.pc = "call"
    /\ LET r == DeleteResource(delcall.resource, delcall.reply)
       IN delcall' = [delcall EXCEPT !.pc = "returned",
                                     !.invoked = Append(@, r.handler),
                                     !.err = r.err]
    /\ UNCHANGED <<pollVars, policy, sweepVars, helperVars, find, destroy, wh, pools>>

NextDelete == DeleteResourceCall

(***************************************************************************)
(* The kinesisanalyticsv2 finders                                          *)
(* (aws/internal/service/kinesisanalyticsv2/finder/finder.go).             *)
(***************************************************************************)
\* resource.NotFoundError
NotFoundError(message, lastError) ==
    [kind |-> "NotFoundError", code |-> "", message |-> message, last |-> lastError]

\* tfresource.NotFound
NotFound(err) == err.kind = "NotFoundError"

\* tfawserr.ErrCodeEquals
ErrCodeEquals(err, code) == err.kind = "aws" /\ err.code = code

ErrCodeResourceNotFoundException == "ResourceNotFoundException"
ErrCodeInvalidArgumentException == "InvalidArgumentException"

\* What DescribeApplication / DescribeApplicationSnapshot can answer: an
\* error, and an output that is nil, holds no detail, or holds the detail.
FinderErrors ==
    {NilError,
     AwsError(ErrCodeResourceNotFoundException, "Application not found"),
     AwsError(ErrCodeInvalidArgumentException, "Snapshot does not exist"),
     AwsError(ErrCodeInvalidArgumentException, "Invalid application name"),
     AwsError("LimitExceededException", "does not exist"),
     OtherError("connection does not exist")}
FinderOutputs == {"nil", "empty", "detail"}

Found(detail) == [kind |-> "obj", detail |-> detail]
FinderResult(result, err) == [result |-> result, err |-> err]

\* ApplicationDetail, lines 23-45
ApplicationDetail(output, err) ==
    IF ErrCodeEquals(err, ErrCodeResourceNotFoundException)
    THEN FinderResult(Nil, NotFoundError("", err))
    ELSE IF err # NilError
    THEN FinderResult(Nil, err)
    ELSE IF output \in {"nil", "empty"}
    THEN FinderResult(Nil, NotFoundError("Empty result", NilError))
    ELSE FinderResult(Found("ApplicationDetail"), NilError)

\* SnapshotDetails without the test of the InvalidArgumentException message
SnapshotDetailsCodeOnly(output, err) ==
    IF ErrCodeEquals(err, ErrCodeResourceNotFoundException)
    THEN FinderResult(Nil, NotFoundError("", err))
    ELSE IF ErrCodeEquals(err, ErrCodeInvalidArgumentException)
    THEN FinderResult(Nil, NotFoundError("", err))
    ELSE IF err # NilError
    THEN FinderResult(Nil, err)
    ELSE IF output \in {"nil", "empty"}
    THEN FinderResult(Nil, NotFoundError("Empty result", NilError))
    ELSE FinderResult(Found("SnapshotDetails"), NilError)

\* SnapshotDetails, lines 60-89
SnapshotDetails(output, err) ==
    IF ErrCodeEquals(err, ErrCodeResourceNotFoundException)
    THEN FinderResult(Nil, NotFoundError("", err))
    ELSE IF ErrMessageContains(err, ErrCodeInvalidArgumentException, "does not exist")
    THEN FinderResult(Nil, NotFoundError("", err))
    ELSE IF err # NilError
    THEN FinderResult(Nil, err)
    ELSE IF output \in {"nil", "empty"}
    THEN FinderResult(Nil, NotFoundError("Empty result", NilError))
    ELSE FinderResult(Found("SnapshotDetails"), NilError)

Finders == {"ApplicationDetail", "SnapshotDetails"}

InitFinder ==
    /\ \E f \in Finders, o \in FinderOutputs, e \in FinderErrors :
         find = [pc |-> "call", finder |-> f, output |-> o, err |-> e,
                 ret |-> FinderResult(Nil, NilError)]
    /\ OthersIdle
    /\ delcall = NoDeleteCall
    /\ destroy = NoDestroyCheck
    /\ wh = NoWebhookCall
    /\ pools = NoPoolsRead

FinderCall ==
    /\ find.pc = "call"
    /\ find' = [find EXCEPT
                  !.pc = "returned",
                  !.ret = IF find.finder = "ApplicationDetail"
                          THEN ApplicationDetail(find.output, find.err)
                          ELSE SnapshotDetails(find.output, find.err)]
    /\ UNCHANGED <<pollVars, policy, sweepVars, helperVars, delcall, destroy, wh, pools>>

NextFinder == FinderCall

(***************************************************************************)
(* The acceptance tests' destroy checks: firehose delivery stream          *)
(* (internal/service/firehose/delivery_stream_test.go), directory service  *)
(* log subscription (ds), AppSync function (appsync).                      *)
(***************************************************************************)
\* A resource recorded in the Terraform state: whether it is of the type the
\* check is about, whether its ID has the form the resource type uses, and
\* what the API answers for it.
\*   exists      the lookup returns the resource
\*   absent      the lookup reports not-found (an empty list for
\*               ListLogSubscriptions)
\*   parentGone  the lookup reports not-found for the resource's container
\*   error       the lookup fails otherwise
Remotes == {"exists", "absent", "parentGone", "error"}
StateResource(own, id, remote) == [own |-> own, id |-> id, remote |-> remote]
StateResources ==
    {StateResource(FALSE, "ok", "exists")}
    \cup {StateResource(TRUE, id, r) : id \in {"ok", "malformed"}, r \in Remotes}

\* s.RootModule().Resources is a map: the loop visits it in any order
TerraformStates ==
    UNION {[1..n -> StateResources] : n \in 0..MaxResources}

LookupError == "InternalServiceError: lookup failed"
StillExistsError == "still exists"
DecodeError == "unexpected format of ID"

\* testAccCheckKinesisFirehoseDeliveryStreamDestroy, from the i-th resource
\* of the iteration on
RECURSIVE CheckDeliveryStreamDestroyFrom(_, _)
CheckDeliveryStreamDestroyFrom(rs, i) ==
    IF i > Len(rs) THEN NoError
    ELSE IF ~rs[i].own THEN CheckDeliveryStreamDestroyFrom(rs, i + 1)
    ELSE IF rs[i].remote \in {"absent", "parentGone"}
    THEN CheckDeliveryStreamDestroyFrom(rs, i + 1)
    ELSE IF rs[i].remote = "error" THEN LookupError
    ELSE StillExistsError

\* testAccCheckLogSubscriptionDestroy
RECURSIVE CheckLogSubscriptionDestroyFrom(_, _)
CheckLogSubscriptionDestroyFrom(rs, i) ==
    IF i > Len(rs) THEN NoError
    ELSE IF ~rs[i].own THEN CheckLogSubscriptionDestroyFrom(rs, i + 1)
    ELSE IF rs[i].remote = "parentGone"
    THEN CheckLogSubscriptionDestroyFrom(rs, i + 1)
    ELSE IF rs[i].remote = "error" THEN LookupError
    ELSE IF rs[i].remote = "exists" THEN StillExistsError
    ELSE CheckLogSubscriptionDestroyFrom(rs, i + 1)

\* testAccCheckFunctionDestroy: not-found returns nil at once, and a
\* function that GetFunction returns lets the loop go on
RECURSIVE CheckFunctionDestroyFrom(_, _)
CheckFunctionDestroyFrom(rs, i) ==
    IF i > Len(rs) THEN NoError
    ELSE IF ~rs[i].own THEN CheckFunctionDestroyFrom(rs, i + 1)
    ELSE IF rs[i].id = "malformed" THEN DecodeError
    ELSE IF rs[i].remote \in {"absent", "parentGone"} THEN NoError
    ELSE IF rs[i].remote = "error" THEN LookupError
    ELSE CheckFunctionDestroyFrom(rs, i + 1)

DestroyChecks ==
    {"testAccCheckKinesisFirehoseDeliveryStreamDestroy",
     "testAccCheckLogSubscriptionDestroy",
     "testAccCheckFunctionDestroy"}

CheckDestroy(check, rs) ==
    CASE check = "testAccCheckKinesisFirehoseDeliveryStreamDestroy" ->
           CheckDeliveryStreamDestroyFrom(rs, 1)
      [] check = "testAccCheckLogSubscriptionDestroy" ->
           CheckLogSubscriptionDestroyFrom(rs, 1)
      [] check = "testAccCheckFunctionDestroy" ->
           CheckFunctionDestroyFrom(rs, 1)

InitDestroy ==
    /\ \E ch \in DestroyChecks, rs \in TerraformStates :
         destroy = [pc |-> "call", check |-> ch, state |-> rs, err |-> NoError]
    /\ OthersIdle
    /\ delcall = NoDeleteCall
    /\ find = NoFinderCall
    /\ wh = NoWebhookCall
    /\ pools = NoPoolsRead

DestroyCheckCall ==
    /\ destroy.pc = "call"
    /\ destroy' = [destroy EXCEPT !.pc = "returned",
                                  !.err = CheckDestroy(destroy.check, destroy.state)]
    /\ UNCHANGED <<pollVars, policy, sweepVars, helperVars, delcall, find, wh, pools>>

NextDestroy == DestroyCheckCall

(***************************************************************************)
(* Paginated listings (ListWebhooks, ListUserPools).                       *)
(***************************************************************************)
\* a NextToken field (*string): nil, or a string that may be empty
NilToken == [present |-> FALSE, value |-> ""]
Token(v) == [present |-> TRUE, value |-> v]

\* The NextToken of page k of n.  The last page has none; the others name
\* the next page, except the page emptyAt, whose token is present but empty.
NextTokenOf(k, n, emptyAt) ==
    IF k = n THEN NilToken
    ELSE IF k = emptyAt THEN Token("")
    ELSE Token(ToString(k + 1))

\* the page the service answers a request with: the first page when the
\* request carries no token
ServedPage(listing, input) ==
    IF ~input.present THEN 1
    ELSE CHOOSE k \in DOMAIN listing : ToString(k) = input.value

\* the request built from the loop's nextToken variable (lines 176-181 of
\* the webhook resource, 77-83 of the data source)
ListInput(nextToken) == IF nextToken # "" THEN Token(nextToken) ELSE NilToken

ListError == AwsError("ThrottlingException", "Rate exceeded")

(***************************************************************************)
(* The CodePipeline webhook resource: GetWebhook, resourceWebhookRead,     *)
(* resourceWebhookDelete.                                                  *)
(***************************************************************************)
WebhookArn == "arn:aws:codepipeline:us-west-2:123456789012:webhook:hook"
OtherArn(k) == "arn:aws:codepipeline:us-west-2:123456789012:webhook:other" \o ToString(k)

ListWebhookItem(arn, name, k) == [Arn |-> arn, Name |-> name, page |-> k]

\* the account's webhooks in n pages, the resource's webhook on page
\* targetAt (0: deleted out of band)
WebhookListing(n, targetAt, emptyAt, name) ==
    [k \in 1..n |->
        [Webhooks |-> IF k = targetAt
                      THEN <<ListWebhookItem(OtherArn(k), "other", k),
                             ListWebhookItem(WebhookArn, name, k)>>
                      ELSE <<ListWebhookItem(OtherArn(k), "other", k)>>,
         NextToken |-> NextTokenOf(k, n, emptyAt)]]

WebhookListings ==
    {WebhookListing(n, t, e, nm) :
        n \in 1..MaxPages, t \in 0..MaxPages, e \in 0..MaxPages, nm \in {"hook", ""}}

NoWebhook == [Arn |-> "", Name |-> "", page |-> 0]

\* resourceWebhookRead after GetWebhook returned, reporting not-found as an
\* error and keeping the ID
resourceWebhookReadKeepsID(id, webhook, err) ==
    IF err # NilError
    THEN [id |-> id, err |-> OtherError("error getting CodePipeline Webhook"),
          name |-> ""]
    ELSE IF webhook.Name = ""
    THEN [id |-> id, err |-> OtherError("Webhook not found"), name |-> ""]
    ELSE [id |-> id, err |-> NilError, name |-> webhook.Name]

\* resourceWebhookRead, lines 245-294, after GetWebhook returned
resourceWebhookRead(id, webhook, err) ==
    IF NotFound(err)
    THEN [id |-> "", err |-> NilError, name |-> ""]
    ELSE IF err # NilError
    THEN [id |-> id, err |-> OtherError("error getting CodePipeline Webhook"),
          name |-> ""]
    ELSE IF webhook.Name = ""
    THEN [id |-> id, err |-> OtherError("Webhook not found"), name |-> ""]
    ELSE [id |-> id, err |-> NilError, name |-> webhook.Name]

ErrCodeWebhookNotFoundException == "WebhookNotFoundException"

\* what DeleteWebhook can answer for a webhook that exists or is gone
DeleteWebhookReplies(exists) ==
    IF exists THEN {NilError, ListError}
    ELSE {NilError, AwsError(ErrCodeWebhookNotFoundException, "webhook not found")}

\* resourceWebhookDelete, lines 311-325, given DeleteWebhook's answer
resourceWebhookDelete(reply) ==
    IF reply # NilError THEN OtherError("Could not delete webhook") ELSE NilError

NewWebhookCall(op, listing) ==
    [op |-> op, pc |-> IF op = "Delete" THEN "delete" ELSE "list",
     id |-> WebhookArn, arn |-> WebhookArn, listing |-> listing,
     nextToken |-> "", sent |-> NilToken, got |-> NilToken, requests |-> 0,
     served |-> {}, repeated |-> FALSE,
     webhook |-> NoWebhook, err |-> NilError, readErr |-> NilError, name |-> "",
     exists |-> \E k \in DOMAIN listing : \E i \in DOMAIN listing[k].Webhooks :
                   listing[k].Webhooks[i].Arn = WebhookArn,
     deletes |-> <<>>]

InitWebhook ==
    /\ \E op \in {"GetWebhook", "Read", "Delete"}, l \in WebhookListings :
         /\ op = "Delete" => Len(l) = 1
         /\ wh = NewWebhookCall(op, l)
    /\ OthersIdle
    /\ delcall = NoDeleteCall
    /\ find = NoFinderCall
    /\ destroy = NoDestroyCheck
    /\ pools = NoPoolsRead

\* GetWebhook, lines 175-203: one iteration of the loop.  The request is
\* built and sent; an error returns; the page is scanned for the ARN; a page
\* without NextToken ends the loop with a NotFoundError; otherwise the token
\* becomes the next request's.
GetWebhook ==
    /\ wh.pc = "list"
    /\ LET input == ListInput(wh.nextToken)
           after == IF wh.op = "Read" THEN "read" ELSE "returned"
           k == ServedPage(wh.listing, input)
           out == wh.listing[k]
           hits == {i \in DOMAIN out.Webhooks : out.Webhooks[i].Arn = wh.arn}
           \* requests: none yet, the first, or a later one
           asked == [wh EXCEPT !.sent = input, !.requests = IF @ = 0 THEN 1 ELSE 2]
           served == [asked EXCEPT !.got = out.NextToken,
                                   !.served = @ \cup {k},
                                   !.repeated = @ \/ k \in wh.served]
       IN \/ wh' = [asked EXCEPT !.pc = after, !.err = ListError]
          \/ wh' = IF hits # {}
                   THEN [served EXCEPT
                           !.pc = after,
                           !.webhook = out.Webhooks[CHOOSE i \in hits :
                                                       \A j \in hits : i <= j]]
                   ELSE IF ~out.NextToken.present
                   THEN [served EXCEPT !.pc = after,
                                       !.err = NotFoundError("No webhook found", NilError)]
                   ELSE [served EXCEPT !.nextToken = out.NextToken.value]
    /\ UNCHANGED <<pollVars, policy, sweepVars, helperVars, delcall, find, destroy, pools>>

\* resourceWebhookRead returns
ReadWebhook ==
    /\ wh.pc = "read"
    /\ LET r == resourceWebhookRead(wh.id, wh.webhook, wh.err)
       IN wh' = [wh EXCEPT !.pc = "returned", !.id = r.id, !.readErr = r.err,
                           !.name = r.name]
    /\ UNCHANGED <<pollVars, policy, sweepVars, helperVars, delcall, find, destroy, pools>>

\* resourceWebhookDelete, applied to the same webhook again after it returned
DeleteWebhook ==
    /\ wh.pc = "delete"
    /\ Len(wh.deletes) < MaxDeletes
    /\ \E reply \in DeleteWebhookReplies(wh.exists) :
         wh' = [wh EXCEPT
                  !.exists = IF reply = NilError THEN FALSE ELSE @,
                  !.deletes = Append(@, [reply |-> reply,
                                         err |-> resourceWebhookDelete(reply)])]
    /\ UNCHANGED <<pollVars, policy, sweepVars, helperVars, delcall, find, destroy, pools>>

NextWebhook == GetWebhook \/ ReadWebhook \/ DeleteWebhook

(***************************************************************************)
(* The Cognito user pools data source: dataSourceUserPoolsRead and         *)
(* getAllCognitoUserPools.                                                 *)
(***************************************************************************)
PoolName == "pool"

UserPoolDescriptionType(id, name) == [Id |-> id, Name |-> name]
PoolId(k, j) == "us-west-2_" \o ToString(k) \o ToString(j)

\* what a page of ListUserPools holds: no pool, a pool of the requested
\* name, or a pool of another name and one of the requested name
PageContents == {"none", "match", "both"}

UserPoolsOf(k, content) ==
    CASE content = "none" -> <<>>
      [] content = "match" -> <<UserPoolDescriptionType(PoolId(k, 1), PoolName)>>
      [] content = "both" -> <<UserPoolDescriptionType(PoolId(k, 1), "other"),
                               UserPoolDescriptionType(PoolId(k, 2), PoolName)>>

PoolListings ==
    UNION {{[k \in 1..n |-> [UserPools |-> UserPoolsOf(k, cs[k]),
                             NextToken |-> NextTokenOf(k, n, e)]] :
               cs \in [1..n -> PageContents], e \in 0..(n - 1)} :
           n \in 1..MaxPages}

\* arn.ARN{...}.String(), lines 48-54
UserPoolArn(id) == "arn:aws:cognito-idp:us-west-2:123456789012:userpool/" \o id

\* dataSourceUserPoolsRead storing the first pool of the name only
dataSourceUserPoolsReadFirstMatch(name, all, err) ==
    LET matched == SelectSeq(all, LAMBDA p : p.Name = name)
    IN IF err # NilError
       THEN [id |-> "", ids |-> <<>>, arns |-> <<>>,
             err |-> OtherError("Error listing cognito user pools")]
       ELSE IF Len(matched) = 0
       THEN [id |-> "", ids |-> <<>>, arns |-> <<>>,
             err |-> OtherError("No cognito user pool found with name")]
       ELSE [id |-> name,
             ids |-> <<matched[1].Id>>,
             arns |-> <<UserPoolArn(matched[1].Id)>>,
             err |-> NilError]

\* dataSourceUserPoolsRead, lines 41-69, given what getAllCognitoUserPools
\* returned
dataSourceUserPoolsRead(name, all, err) ==
    LET matched == SelectSeq(all, LAMBDA p : p.Name = name)
    IN IF err # NilError
       THEN [id |-> "", ids |-> <<>>, arns |-> <<>>,
             err |-> OtherError("Error listing cognito user pools")]
       ELSE IF Len(matched) = 0
       THEN [id |-> "", ids |-> <<>>, arns |-> <<>>,
             err |-> OtherError("No cognito user pool found with name")]
       ELSE [id |-> name,
             ids |-> [i \in 1..Len(matched) |-> matched[i].Id],
             arns |-> [i \in 1..Len(matched) |-> UserPoolArn(matched[i].Id)],
             err |-> NilError]

InitPools ==
    /\ \E l \in PoolListings :
         pools = [pc |-> "list", name |-> PoolName, listing |-> l, nextToken |-> "",
                  requests |-> 0, served |-> {}, repeated |-> FALSE,
                  collected |-> <<>>, listErr |-> NilError,
                  id |-> "", ids |-> <<>>, arns |-> <<>>, err |-> NilError]
    /\ OthersIdle
    /\ delcall = NoDeleteCall
    /\ find = NoFinderCall
    /\ destroy = NoDestroyCheck
    /\ wh = NoWebhookCall

\* getAllCognitoUserPools, lines 76-96: one iteration of the loop
getAllCognitoUserPools ==
    /\ pools.pc = "list"
    /\ pools.requests < MaxRequests
    /\ LET input == ListInput(pools.nextToken)
           k == ServedPage(pools.listing, input)
           out == pools.listing[k]
           asked == [pools EXCEPT !.requests = @ + 1]
           served == [asked EXCEPT !.served = @ \cup {k},
                                   !.repeated = @ \/ k \in pools.served,
                                   !.collected = @ \o out.UserPools]
       IN \/ pools' = [asked EXCEPT !.pc = "read", !.listErr = ListError]
          \/ pools' = IF ~out.NextToken.present
                      THEN [served EXCEPT !.pc = "read"]
                      ELSE [served EXCEPT !.nextToken = out.NextToken.value]
    /\ UNCHANGED <<pollVars, policy, sweepVars, helperVars, delcall, find, destroy, wh>>

\* dataSourceUserPoolsRead returns
ReadUserPools ==
    /\ pools.pc = "read"
    /\ LET r == dataSourceUserPoolsRead(pools.name, pools.collected, pools.listErr)
       IN pools' = [pools EXCEPT !.pc = "returned", !.id = r.id, !.ids = r.ids,
                                 !.arns = r.arns, !.err = r.err]
    /\ UNCHANGED <<pollVars, policy, sweepVars, helperVars, delcall, find, destroy, wh>>

NextPools == getAllCognitoUserPools \/ ReadUserPools

Init ==
    \/ InitPoll
    \/ InitSweep
    \/ InitClients
    \/ InitSkip
    \/ InitRefresh
    \/ InitDelete
    \/ InitFinder
    \/ InitDestroy
    \/ InitWebhook
    \/ InitPools

Next ==
    \/ NextPoll
    \/ NextSweep
    \/ NextClients
    \/ NextSkip
    \/ NextRefresh
    \/ NextDelete
    \/ NextFinder
    \/ NextDestroy
    \/ NextWebhook
    \/ NextPools

Spec == Init /\ [][Next]_vars

\* workers are scheduled and sleeps end
FairSpec == Spec /\ WF_vars(Next)

(***************************************************************************)
(* Properties of the reducers and of the driver polling them.              *)
(***************************************************************************)
Polled == pstate.polls > 0

\* the describe / find call reported the not-found class the reducer tests for
NotFoundReported ==
    /\ Polled
    /\ NotFoundClass(rname) # NoError
    /\ lastResp.err = NotFoundClass(rname)

TerminalDeletionValue ==
    /\ Polled
    /\ lastResp.err = NoError
    /\ lastResp.shape = "full"
    /\ \/ rname = "StatusVPCPeeringConnection"
          /\ lastResp.state \in {"deleted", "expired", "rejected"}
       \/ rname = "StatusCarrierGatewayState" /\ lastResp.state = "deleted"

\* C2: a successful describe whose lifecycle field holds a terminal deletion
\* value (peering: deleted, expired, rejected; carrier gateway: deleted) is
\* reduced to (nil, NotFound, nil), the outcome of an API-level not-found.
C2_TerminalDeletionIsNotFound ==
    TerminalDeletionValue =>
        /\ outcome = PollOutcome(Nil, "NotFound", NoError)
        /\ outcome = Reduce(rname, ErrResp("CodeNotFound", lastResp.gen))

C2_Witness ==
    /\ TerminalDeletionValue
    /\ rname = "StatusVPCPeeringConnection"
    /\ lastResp.state = "expired"
    /\ outcome.status = "NotFound"

\* C3: whatever the API answered (error, empty, partial or full payload), an
\* outcome whose status is NotFound carries a nil payload.
C3_NotFoundCarriesNilPayload ==
    (Polled /\ ~outcome.panicked /\ outcome.status = "NotFound") => outcome.payload = Nil

C3_Witness ==
    /\ Polled
    /\ rname = "StatusVPNGatewayVPCAttachmentState"
    /\ lastResp.err = NoError
    /\ lastResp.shape = "absent"
    /\ outcome.status = "NotFound"
    /\ outcome.payload = Nil

\* C5 (as claimed): when the driver ends in Target, the payload it returns is
\* the one the last poll fetched, and it is not nil.
C5_TargetPayloadNonNil ==
    pstate.state = "Target" =>
        /\ pstate.result = outcome.payload
        /\ ~IsNilPayload(pstate.result)

Item(i) == items[i]
LoopEnded(it) == it.loop # "Pending"
Cancelled(it) == it.loopErr = ContextCanceled

\* C4: an attempt that yields a non-nil error is never terminal success: the
\* retry closure turns every non-nil DeleteResource error into a retryable or
\* non-retryable error and the loop is not in Target after it; a reducer
\* outcome carrying an error never puts the poll driver in Target.
C4_ErrorIsNeverSuccess ==
    /\ \A i \in DOMAIN items :
         (Item(i).calls > 0 /\ Item(i).lastErr # NoError) =>
             /\ Item(i).lastRetry.kind \in {"retryable", "nonretryable"}
             /\ Item(i).lastRetry.err = Item(i).lastErr
             /\ Item(i).loop # "Target"
    /\ (Polled /\ outcome.err # NoError) => pstate.state # "Target"

C4_Witness ==
    \E i \in DOMAIN items :
        /\ Item(i).loop = "Failure"
        /\ Item(i).lastErr = DependencyError
        /\ Item(i).lastRetry = NonRetryableError(DependencyError)

C4_WitnessReducer ==
    /\ rname = "StatusEBSSnapshotImport"
    /\ outcome.err = DeletingError
    /\ outcome.status \in targetSet
    /\ ~IsNilPayload(outcome.payload)
    /\ pstate.state = "Failure"

\* C7 (as claimed): attempts that fail with a rate-limiting error do not end
\* the loop early: while every attempt so far failed with one, the loop is
\* still Pending (or gave up at the deadline or on cancellation, never in
\* Failure), and a successful attempt after them ends the item with nil.
C7_ThrottlingNeverFailsEarly ==
    \A i \in DOMAIN items :
        /\ (Item(i).calls > 0 /\ Item(i).allRateLimited /\ ~Cancelled(Item(i)))
               => Item(i).loop \in {"Pending", "TimedOut"}
        /\ (Item(i).calls > 0 /\ Item(i).lastErr = NoError /\ Item(i).pc = "done")
               => (Item(i).loop = "Target" /\ Item(i).err = NoError)

\* C8 (as claimed): an attempt error that is not a rate-limiting error ends
\* the loop at once as Failure with that error as the item's outcome, and
\* every rate-limiting error is classified as retryable.
C8_OnlyRateLimitingIsRetried ==
    \A i \in DOMAIN items :
        /\ (Item(i).calls > 0 /\ Item(i).lastErr # NoError
                /\ ~IsRateLimitError(Item(i).lastErr))
               => /\ Item(i).loop = "Failure"
                  /\ Item(i).loopErr = Item(i).lastErr
                  /\ Item(i).pc = "done" => Item(i).err = Item(i).lastErr
        /\ (Item(i).calls > 0 /\ Item(i).lastErr # NoError
                /\ IsRateLimitError(Item(i).lastErr))
               => Item(i).lastRetry.kind = "retryable"

\* C9: when every attempt fails retryably, the loop ends only by giving up at
\* the deadline (cancellation aside): with a timeout error, distinct from any
\* Failure error, not before T and no later than T plus one poll interval;
\* and the loop does end.
C9_TimeoutBoundary ==
    /\ [](\A i \in DOMAIN items :
            /\ (Item(i).calls > 0 /\ Item(i).allThrottling /\ LoopEnded(Item(i))
                    /\ ~Cancelled(Item(i)))
                   => /\ Item(i).loop = "TimedOut"
                      /\ Item(i).loopErr = TimeoutError
                      /\ Item(i).elapsed >= policy.timeout
                      /\ Item(i).elapsed <= policy.timeout + PollWait(policy)
            /\ Item(i).loop = "Failure" => Item(i).loopErr # TimeoutError
            /\ Item(i).loop = "Pending" =>
                   Item(i).elapsed < policy.timeout + PollWait(policy))
    /\ [](pstate.state = "TimedOut" =>
            /\ pstate.err = TimeoutError
            /\ pstate.elapsed >= policy.timeout
            /\ pstate.elapsed <= policy.timeout + PollWait(policy))
    /\ <>(/\ \A i \in DOMAIN items : LoopEnded(Item(i))
          /\ pstate.phase \in {"off", "done"})

C9_Witness ==
    \E i \in DOMAIN items :
        /\ Item(i).loop = "TimedOut"
        /\ Item(i).allThrottling
        /\ Item(i).calls >= 2
        /\ Item(i).elapsed > policy.timeout

\* C10: exactly one further DeleteResource call is made after the loop if and
\* only if the loop ended with a timeout error; it is not retried and its
\* result replaces the timeout error as the item's outcome; after success, a
\* non-retryable error or cancellation the outcome is the loop's and no
\* further call is made.
C10_ExtraDeleteOnlyAfterTimeout ==
    /\ [](\A i \in DOMAIN items :
            /\ Item(i).extra <= 1
            /\ Item(i).pc # "done" => Item(i).extra = 0
            /\ Item(i).pc = "done" =>
                   /\ (Item(i).extra = 1) <=> (Item(i).loop = "TimedOut")
                   /\ Item(i).loop = "TimedOut" => Item(i).err = Item(i).extraErr
                   /\ Item(i).loop # "TimedOut" => Item(i).err = Item(i).loopErr)
    /\ [][\A i \in DOMAIN items : Item(i).pc = "done" => items'[i] = items[i]]_vars

C10_Witness ==
    \E i \in DOMAIN items :
        /\ Item(i).pc = "done"
        /\ Item(i).loop = "TimedOut"
        /\ Item(i).extra = 1
        /\ Item(i).err = NoError

(***************************************************************************)
(* Properties of the orchestrator and its workers.                         *)
(***************************************************************************)
Spawned == orch.pc \in {"wait", "returned"}
WorkersOf(k) == {w \in DOMAIN items : Item(w).item = k}
Failed(it) == it.pc = "done" /\ it.err # NoError

\* C11: once the workers are started every item of the list has exactly one
\* worker; a step of one worker changes no other worker; every worker makes
\* its delete attempt and reaches its own outcome whatever the others do;
\* and SweepOrchestratorContext returns only when all workers have finished.
C11_ItemsAreIndependent ==
    /\ [](Spawned => \A k \in DOMAIN items : Cardinality(WorkersOf(k)) = 1)
    /\ [](orch.pc = "returned" => \A w \in DOMAIN items : Item(w).pc = "done")
    /\ [](\A w \in DOMAIN items :
            (Item(w).pc = "done" /\ ~Cancelled(Item(w))) => Item(w).calls >= 1)
    /\ [][Spawned => \A w \in DOMAIN items :
                        items'[w] # items[w] =>
                            \A v \in DOMAIN items \ {w} : items'[v] = items[v]]_vars
    /\ <>(/\ \A w \in DOMAIN items : Item(w).pc = "done"
          /\ orch.pc \in {"off", "returned"})

C11_Witness ==
    /\ Len(items) = 2
    /\ orch.pc = "wait"
    /\ Item(1).loop = "Failure" /\ Item(1).pc = "done" /\ Item(1).item = 1
    /\ Item(2).pc = "calling" /\ Item(2).item = 2 /\ Item(2).calls = 1

\* C12: the error SweepOrchestratorContext returns holds exactly the errors
\* of the workers that failed, one each: it is nil exactly when every outcome
\* is nil (also for an empty list), whatever the order the workers finished.
C12_AggregateIsExactlyTheFailures ==
    orch.pc = "returned" =>
        /\ (orch.errs = {}) <=> (\A w \in DOMAIN items : Item(w).err = NoError)
        /\ \A w \in DOMAIN items :
             /\ Item(w).err # NoError => <<w, Item(w).err>> \in orch.errs
             /\ Item(w).err = NoError => ~(\E e \in orch.errs : e[1] = w)
        /\ Cardinality(orch.errs) = Cardinality({w \in DOMAIN items : Failed(Item(w))})

C12_Witness ==
    /\ orch.pc = "returned"
    /\ Len(items) = 2
    /\ Item(1).err = NoError
    /\ Item(2).err # NoError
    /\ orch.errs = {<<2, Item(2).err>>}

C12_WitnessEmptyList ==
    /\ orch.pc = "returned"
    /\ items = <<>>
    /\ orch.errs = {}

(***************************************************************************)
(* Properties of the client cache.                                         *)
(***************************************************************************)
\* a caller is at its write of the map while another is at a read or write
MapRace == \E c \in DOMAIN cli.callers : Caller(c).pc = "store" /\ OtherAtMap(c)

\* C13 (as claimed): at most one client is constructed per region, callers
\* for the same region receive the same client, no two callers are at
\* unsynchronised accesses of the map of which one is a write, and no write
\* hits an uninitialised map.
C13_ExactlyOnceConstruction ==
    /\ \A r \in DOMAIN cli.built : cli.built[r] <= 1
    /\ \A a, b \in DOMAIN cli.callers :
         (/\ Caller(a).region = Caller(b).region
          /\ Caller(a).result # NoClient
          /\ Caller(b).result # NoClient) => Caller(a).result = Caller(b).result
    /\ ~MapRace
    /\ ~cli.fatal
    /\ \A c \in DOMAIN cli.callers : Caller(c).pc # "panic"

(***************************************************************************)
(* Properties of a worker's delete attempts.                               *)
(***************************************************************************)
\* the workers with a DeleteResource call in progress for item k
InFlight(k) == {w \in WorkersOf(k) : Item(w).pc = "calling"}

\* C14: for one sweep item at most one DeleteResource call is in progress at
\* any time; an attempt starts only when no call for the item is in
\* progress, and so does the extra attempt made after a timeout.
C14_AttemptsAreSequential ==
    /\ [](Spawned => \A k \in DOMAIN items : Cardinality(InFlight(k)) <= 1)
    /\ [][\A w \in DOMAIN items :
            (Item(w).pc # "calling" /\ items'[w].pc = "calling")
                => (Item(w).pc = "attempt" /\ InFlight(Item(w).item) = {})]_vars
    /\ [][\A w \in DOMAIN items :
            items'[w].extra # Item(w).extra
                => (/\ Item(w).pc = "after"
                    /\ InFlight(Item(w).item) = {}
                    /\ items'[w].calls = Item(w).calls)]_vars

C14_Witness ==
    /\ Len(items) = 2
    /\ Item(1).pc = "calling" /\ Item(1).calls = 1
    /\ Item(2).pc = "calling"
    /\ InFlight(1) = {1}
    /\ InFlight(2) = {2}

\* C15 (as claimed): once the context is done, a worker waiting between
\* attempts stops at its next step without waiting for the timeout; a worker
\* stopped by cancellation returns the cancellation error, which is no
\* timeout, and makes no extra attempt; and a delete in progress when the
\* context is done ends with the cancellation error.
C15_CancellationStopsTheItem ==
    /\ [][\A w \in DOMAIN items :
            (ctxDone /\ Item(w).pc \in {"start", "attempt", "wait"} /\ items'[w] # Item(w))
                => (items'[w].loop = "Failure" /\ items'[w].loopErr = ContextCanceled)]_vars
    /\ [](\A w \in DOMAIN items :
            (Item(w).pc = "done" /\ Cancelled(Item(w)))
                => (/\ Item(w).err = ContextCanceled
                    /\ ~TimedOut(Item(w).err)
                    /\ Item(w).extra = 0))
    /\ [][\A w \in DOMAIN items :
            (ctxDone /\ Item(w).pc = "calling" /\ items'[w].pc # "calling")
                => Contains(items'[w].lastErr, ContextCanceled)]_vars

(***************************************************************************)
(* Properties of SkipSweepError.                                           *)
(***************************************************************************)
\* the table entries an error matches
MatchingEntries(err) ==
    {i \in DOMAIN SkipTable :
        /\ err.kind = "aws"
        /\ err.code = SkipTable[i].code
        /\ Contains(err.message, SkipTable[i].message)}

\* C16: the result of SkipSweepError is the decision of the first table entry
\* the error matches, in declared order, also when it matches several; it is
\* false when the error matches none; so it is true exactly when some
\* entry's code is the error's code and its substring occurs in the message.
C16_FirstMatchDecides ==
    skip.pc = "returned" =>
        LET m == MatchingEntries(skip.err)
        IN /\ m = {} => skip.result = FALSE
           /\ m # {} =>
                skip.result = SkipTable[CHOOSE i \in m : \A j \in m : i <= j].skip
           /\ skip.result <=> (m # {})

C16_Witness ==
    /\ skip.pc = "returned"
    /\ skip.err.code = "InvalidParameterValue"
    /\ MatchingEntries(skip.err) = {3, 4}
    /\ skip.result = TRUE

C16_WitnessNoMatch ==
    /\ skip.pc = "returned"
    /\ skip.err = AwsError("InvalidAction", "resource has a dependent object")
    /\ skip.result = FALSE

Refreshed == twice.pc \in {"second", "done"}

\* the describe / find call failed with an error outside the not-found class
\* the reducer tests for, or a later step of the reducer failed
FailedOtherwise ==
    /\ Refreshed
    /\ ~twice.first.panicked
    /\ \/ twice.remote.err \notin {NoError, NotFoundClass(twice.reducer)}
       \/ twice.remote.err = NoError /\ twice.first.err # NoError

\* C18 (as claimed): when the call, or a later step of the reducer, fails
\* with an error that is not the not-found class, the reducer returns a nil
\* payload, the status Unknown and the error that occurred.
C18_OtherErrorIsNilUnknownError ==
    FailedOtherwise =>
        /\ twice.first.payload = Nil
        /\ twice.first.status = "Unknown"
        /\ twice.first.err # NoError
        /\ twice.remote.err # NoError => twice.first.err = twice.remote.err

\* C19 (as claimed): whatever the API returns, error or response of any
\* shape, the reducer returns a triple and does not abort.
C19_ReducerNeverAborts ==
    Refreshed => ~twice.first.panicked

(***************************************************************************)
(* Properties of one invocation of the retry driver.                       *)
(***************************************************************************)
DriverStates == {"Pending", "Target", "Failure", "TimedOut"}
Terminal(st) == st \in {"Target", "Failure", "TimedOut"}

\* C20 (as claimed): an invocation of the driver starts in Pending and ends
\* in exactly one of Target, Failure and TimedOut; a terminal state is kept
\* and no poll or attempt follows it; the invocation surfaces one error, or
\* none on success; a sweep worker reports at most one error for its item.
C20_OneTerminalOutcome ==
    /\ [](/\ pstate.state \in DriverStates
          /\ pstate.polls = 0 => pstate.state = "Pending"
          /\ pstate.phase = "done" => Terminal(pstate.state)
          /\ Terminal(pstate.state) => (pstate.err = NoError <=> pstate.state = "Target"))
    /\ [](\A w \in DOMAIN items :
            /\ Item(w).loop \in DriverStates
            /\ Item(w).calls = 0 => Item(w).loop \in {"Pending", "Failure"}
            /\ Item(w).pc \in {"after", "done"} => Terminal(Item(w).loop)
            /\ Terminal(Item(w).loop) =>
                   (Item(w).loopErr = NoError <=> Item(w).loop = "Target")
            /\ Cardinality({e \in orch.errs : e[1] = w}) <= 1)
    /\ [][/\ Terminal(pstate.state) => pstate' = pstate
          /\ \A w \in DOMAIN items :
               Terminal(Item(w).loop) => /\ items'[w].loop = Item(w).loop
                                         /\ items'[w].loopErr = Item(w).loopErr
                                         /\ items'[w].calls = Item(w).calls]_vars
    /\ <>(/\ pstate.phase \in {"off", "done"}
          /\ \A w \in DOMAIN items : Terminal(Item(w).loop))

(***************************************************************************)
(* C29: DeleteResource invokes exactly one delete handler per call, chosen *)
(* by the precedence DeleteContext, DeleteWithoutTimeout, Delete.  For the *)
(* context-style handlers it returns an error carrying the summary of the  *)
(* first diagnostic of Error severity, and nil when the diagnostics are    *)
(* empty or hold only warnings; for the legacy handler it returns the      *)
(* handler's error unchanged.                                              *)
(***************************************************************************)
PrecedingHandler(resource) ==
    IF resource.DeleteContext THEN "DeleteContext"
    ELSE IF resource.DeleteWithoutTimeout THEN "DeleteWithoutTimeout"
    ELSE "Delete"

C29_DeleteResourceOneHandler ==
    delcall.pc = "returned" =>
        LET diags == delcall.reply.diags
            IsFirstError(i) == /\ diags[i].Severity = DiagError
                               /\ \A j \in 1..(i - 1) : diags[j].Severity # DiagError
        IN /\ delcall.invoked = <<PrecedingHandler(delcall.resource)>>
           /\ IF delcall.invoked[1] = "Delete"
              THEN delcall.err = delcall.reply.err
              ELSE /\ \A i \in DOMAIN diags :
                        IsFirstError(i) =>
                            /\ delcall.err # NoError
                            /\ Contains(delcall.err, diags[i].Summary)
                            /\ \A j \in DOMAIN diags :
                                 Contains(delcall.err, diags[j].Summary)
                                     => diags[j].Summary = diags[i].Summary
                   /\ (\A i \in DOMAIN diags : diags[i].Severity # DiagError)
                          => delcall.err = NoError

\* a context-style handler answered a warning and two errors' worth of
\* diagnostics, and a legacy handler next to the context-style ones was passed over
C29_Witness ==
    /\ delcall.pc = "returned"
    /\ delcall.resource = Resource(FALSE, TRUE, TRUE)
    /\ delcall.invoked = <<"DeleteWithoutTimeout">>
    /\ Len(delcall.reply.diags) = 2
    /\ delcall.reply.diags[1].Severity = DiagError
    /\ delcall.reply.diags[2].Severity = DiagError
    /\ delcall.err # NoError

\* warnings only: nil
C29_WitnessWarningsOnly ==
    /\ delcall.pc = "returned"
    /\ delcall.reply.diags = <<DeprecationWarning>>
    /\ delcall.err = NoError

(***************************************************************************)
(* C24: the sweeper's environment-driven configuration is read once at     *)
(* start-up: a call of SharedRegionalSweepClient that begins after another *)
(* call has returned does not read the environment.                        *)
(***************************************************************************)
C24_EnvironmentReadOnce ==
    \A c \in DOMAIN cli.callers : Caller(c).after => ~Caller(c).readEnv

(***************************************************************************)
(* C30: SharedRegionalSweepClient changes the cache only on success.  A    *)
(* call that finds a client stored for its region returns that client and  *)
(* reads no credentials and constructs nothing; a call that fails returns  *)
(* a nil client with an error and leaves SweeperClients as it was, so that *)
(* a later call for the region misses the cache and initialises again.     *)
(***************************************************************************)
Stored(c) == cli.initialised /\ cli.map[Caller(c).region] # NoClient

C30_CacheChangesOnlyOnSuccess ==
    [][\A c \in DOMAIN cli.callers :
         LET before == Caller(c)
             now == cli'.callers[c]
         IN /\ (before.pc = "lookup" /\ now # before /\ Stored(c)) =>
                  /\ now.pc = "done"
                  /\ now.result = cli.map[before.region]
                  /\ now.err = NoError
                  /\ ~now.readEnv
                  /\ cli'.built = cli.built
                  /\ cli'.map = cli.map
            /\ (before.pc = "lookup" /\ now # before /\ ~Stored(c)) =>
                  now.pc = "configure"
            /\ (before.pc # "done" /\ now.pc = "done" /\ now.err # NoError) =>
                  /\ now.result = NoClient
                  /\ cli'.map = cli.map
                  /\ cli'.initialised = cli.initialised]_vars

\* a call failed, and a later call for the same region initialises again;
\* a third party's client is stored and another caller got it from the cache
C30_Witness ==
    \E c, d \in DOMAIN cli.callers :
        /\ c # d
        /\ Caller(c).region = Caller(d).region
        /\ Caller(c).pc = "done" /\ Caller(c).err # NoError
        /\ Caller(d).after /\ Caller(d).readEnv /\ Caller(d).pc = "done"
        /\ Caller(d).result # NoClient

C30_WitnessCacheHit ==
    \E c, d \in DOMAIN cli.callers :
        /\ c # d
        /\ Caller(c).pc = "done" /\ Caller(c).result = c
        /\ Caller(d).pc = "done" /\ Caller(d).result = c /\ ~Caller(d).readEnv

(***************************************************************************)
(* C23: ApplicationDetail and SnapshotDetails return a NotFoundError and a *)
(* nil result exactly when the API reports ResourceNotFoundException, when *)
(* (SnapshotDetails only) it reports InvalidArgumentException with a       *)
(* message containing "does not exist", or when the call succeeds with an  *)
(* empty result.  Every other API error is returned unchanged with a nil   *)
(* result; otherwise the detail is returned with a nil error.  A non-nil   *)
(* result and a non-nil error never come together.                         *)
(***************************************************************************)
ReportsAbsence(f, o, e) ==
    \/ e.kind = "aws" /\ e.code = "ResourceNotFoundException"
    \/ /\ f = "SnapshotDetails"
       /\ e.kind = "aws" /\ e.code = "InvalidArgumentException"
       /\ Contains(e.message, "does not exist")
    \/ e = NilError /\ o # "detail"

C23_FinderNotFoundExactly ==
    find.pc = "returned" =>
        LET ret == find.ret
            absent == ReportsAbsence(find.finder, find.output, find.err)
        IN /\ (ret.err.kind = "NotFoundError") <=> absent
           /\ absent => ret.result = Nil
           /\ (~absent /\ find.err # NilError) =>
                  ret.err = find.err /\ ret.result = Nil
           /\ (~absent /\ find.err = NilError) =>
                  ret.err = NilError /\ ret.result = Found(find.finder)
           /\ ~(ret.result # Nil /\ ret.err # NilError)

\* SnapshotDetails turned an InvalidArgumentException "... does not exist"
\* into a NotFoundError
C23_Witness ==
    /\ find.pc = "returned"
    /\ find.finder = "SnapshotDetails"
    /\ find.err = AwsError("InvalidArgumentException", "Snapshot does not exist")
    /\ find.ret.err.kind = "NotFoundError"
    /\ find.ret.result = Nil

\* ApplicationDetail returned the same error unchanged
C23_WitnessUnchanged ==
    /\ find.pc = "returned"
    /\ find.finder = "ApplicationDetail"
    /\ find.err = AwsError("InvalidArgumentException", "Snapshot does not exist")
    /\ find.ret = FinderResult(Nil, find.err)

\* a successful call with an empty result
C23_WitnessEmpty ==
    /\ find.pc = "returned"
    /\ find.err = NilError
    /\ find.output = "empty"
    /\ find.ret.err = NotFoundError("Empty result", NilError)

(***************************************************************************)
(* C25: each destroy check returns an error whenever at least one resource *)
(* of its type recorded in the state still exists remotely, whatever its   *)
(* position among the state's resources, and returns nil only when every   *)
(* such resource is reported absent; a lookup error other than not-found   *)
(* is returned as a failure.                                               *)
(***************************************************************************)
OwnResources == {i \in DOMAIN destroy.state : destroy.state[i].own}

C25_DestroyCheckFindsLeftovers ==
    destroy.pc = "returned" =>
        /\ (\E i \in OwnResources : destroy.state[i].remote = "exists")
               => destroy.err # NoError
        /\ (\E i \in OwnResources : destroy.state[i].remote = "error")
               => destroy.err # NoError
        /\ destroy.err = NoError =>
               \A i \in OwnResources :
                   destroy.state[i].remote \in {"absent", "parentGone"}

(***************************************************************************)
(* C21: deleting a resource that is already absent is a success.           *)
(* resourceWebhookDelete returns nil when DeleteWebhook reports that the   *)
(* webhook does not exist, so Delete applied twice to the same webhook     *)
(* succeeds both times.                                                    *)
(***************************************************************************)
ReportsNoWebhook(reply) ==
    reply.kind = "aws" /\ reply.code = "WebhookNotFoundException"

C21_DeleteOfAbsentSucceeds ==
    \A i \in DOMAIN wh.deletes :
        /\ ReportsNoWebhook(wh.deletes[i].reply) => wh.deletes[i].err = NilError
        /\ (i > 1 /\ wh.deletes[i - 1].err = NilError) => wh.deletes[i].err = NilError

(***************************************************************************)
(* C22: when the webhook recorded in state has been deleted out of band,   *)
(* resourceWebhookRead returns no error and clears the resource ID: it     *)
(* sets the ID to "" and returns nil whenever GetWebhook returns a         *)
(* NotFoundError, and returns an error without clearing the ID for any     *)
(* other lookup error.                                                     *)
(***************************************************************************)
ReadReturned == wh.op = "Read" /\ wh.pc = "returned"

C22_ReadClearsIDOnNotFound ==
    ReadReturned =>
        /\ NotFound(wh.err) => wh.id = "" /\ wh.readErr = NilError
        /\ (wh.err # NilError /\ ~NotFound(wh.err)) =>
               wh.id = wh.arn /\ wh.readErr # NilError
        /\ (~wh.exists /\ wh.err # ListError) => wh.id = "" /\ wh.readErr = NilError
        /\ wh.id = "" => NotFound(wh.err)

\* the webhook is gone, the listing has several pages, Read cleared the ID
C22_Witness ==
    /\ ReadReturned
    /\ ~wh.exists
    /\ Len(wh.listing) > 1
    /\ wh.served = DOMAIN wh.listing
    /\ wh.id = ""
    /\ wh.readErr = NilError

\* another lookup error: the ID is kept
C22_WitnessOtherError ==
    /\ ReadReturned
    /\ wh.err = ListError
    /\ wh.id = wh.arn
    /\ wh.readErr # NilError

(***************************************************************************)
(* C26: GetWebhook scans the pages of ListWebhooks in order, passing each  *)
(* page's NextToken to the next request.  It returns the first webhook     *)
(* whose ARN equals the requested ARN and issues no further request after  *)
(* finding it; it returns a NotFoundError if and only if no page up to the *)
(* last one contains that ARN; a ListWebhooks error on any page is         *)
(* returned at once with a nil webhook.                                    *)
(***************************************************************************)
PagesWithArn ==
    {k \in DOMAIN wh.listing :
        \E i \in DOMAIN wh.listing[k].Webhooks : wh.listing[k].Webhooks[i].Arn = wh.arn}

GetReturned == wh.op \in {"GetWebhook", "Read"} /\ wh.pc \in {"read", "returned"}

C26_GetWebhookScansInOrder ==
    [][/\ (wh.pc = "list" /\ wh.requests > 0 /\ wh'.sent # wh.sent) =>
              wh'.sent = wh.got
       /\ (wh.pc = "list" /\ wh.webhook # NoWebhook) => wh'.requests = wh.requests
       /\ GetReturned' =>
              /\ wh'.webhook # NoWebhook =>
                     /\ wh'.err = NilError
                     /\ wh'.webhook.Arn = wh.arn
                     /\ wh'.webhook.page \in PagesWithArn
                     /\ \A k \in PagesWithArn : wh'.webhook.page <= k
              /\ NotFound(wh'.err) => PagesWithArn = {} /\ wh'.webhook = NoWebhook
              /\ (PagesWithArn = {} /\ wh'.err # ListError) => NotFound(wh'.err)
              /\ wh'.err = ListError => wh'.webhook = NoWebhook]_vars

(***************************************************************************)
(* C27: pagination terminates.  GetWebhook and getAllCognitoUserPools      *)
(* eventually return whenever the listing has finitely many pages, for     *)
(* every NextToken the API may return on a non-final page, a present but   *)
(* empty token included; no page is requested twice in one call.           *)
(***************************************************************************)
C27_PaginationTerminates ==
    /\ [](~wh.repeated /\ ~pools.repeated)
    /\ <>(wh.pc \notin {"list", "read"} /\ pools.pc \notin {"list", "read"})

(***************************************************************************)
(* C28: dataSourceUserPoolsRead considers the user pools of all pages.  On *)
(* success the ids and arns it stores have equal length and hold exactly   *)
(* one entry per pool whose name equals the requested name, the i-th ARN   *)
(* built from the i-th id, and the data source ID is the name.  If the     *)
(* listing fails or no pool has the name, it returns an error and sets     *)
(* neither the ID nor ids and arns.                                        *)
(***************************************************************************)
MatchingPoolIds ==
    UNION {{pools.listing[k].UserPools[i].Id :
               i \in {j \in DOMAIN pools.listing[k].UserPools :
                         pools.listing[k].UserPools[j].Name = pools.name}} :
           k \in DOMAIN pools.listing}

C28_UserPoolsOfAllPages ==
    pools.pc = "returned" =>
        /\ pools.err = NilError =>
               /\ Len(pools.ids) = Len(pools.arns)
               /\ {pools.ids[i] : i \in DOMAIN pools.ids} = MatchingPoolIds
               /\ Len(pools.ids) = Cardinality(MatchingPoolIds)
               /\ \A i \in DOMAIN pools.ids : pools.arns[i] = UserPoolArn(pools.ids[i])
               /\ pools.id = pools.name
        /\ (pools.listErr # NilError \/ MatchingPoolIds = {}) => pools.err # NilError
        /\ pools.err # NilError =>
               pools.id = "" /\ pools.ids = <<>> /\ pools.arns = <<>>

\* pools of the name on several pages, next to pools of other names
C28_Witness ==
    /\ pools.pc = "returned"
    /\ pools.err = NilError
    /\ Len(pools.listing) > 1
    /\ Len(pools.ids) > 1
    /\ Len(pools.collected) > Len(pools.ids)
    /\ \E i, j \in DOMAIN pools.ids :
          SubSeq(pools.ids[i], 1, 11) # SubSeq(pools.ids[j], 1, 11)

\* no pool of the name
C28_WitnessNoMatch ==
    /\ pools.pc = "returned"
    /\ pools.listErr = NilError
    /\ MatchingPoolIds = {}
    /\ pools.err # NilError
    /\ pools.id = ""

====
